---- MODULE Spec2Model ----
(***************************************************************************)
(* A model of the core of src/src/solana.hpp: the Transaction message      *)
(* compiler (Transaction::Message::compile), the wire serializer           *)
(* (CompiledTransaction::Message::serialize, CompiledTransaction::         *)
(* serialize), the signer step (CompiledTransaction::sign), the program    *)
(* address derivation and base-58 text of PublicKey, Result<T>, Keypair,   *)
(* base64, Connection::sign_and_send_transaction and the initialization of *)
(* libsodium.                                                              *)
(*                                                                         *)
(* Eleven specifications share the variables:                              *)
(*   Spec        builds a Transaction with add() and compiles it;          *)
(*   SpecWire    starts from a compiled message and runs the serializer    *)
(*               and the signer in every order;                            *)
(*   SpecLength  applies the compact-length encoder to a range of counts;  *)
(*   SpecAddress calls create_program_address and find_program_address;    *)
(*   SpecCodec   takes a key to its base-58 text and back;                 *)
(*   SpecResult  decodes a response into a Result<T> and unwraps it;       *)
(*   SpecOrder   compares and sorts three keys;                            *)
(*   SpecKeypair constructs Keypairs from bytes, a file, a seed, at random;*)
(*   SpecBase64  encodes a byte string and decodes the text;               *)
(*   SpecSend    sends a transaction and creates token accounts;           *)
(*   SpecSodium  constructs objects and uses the primitives in any order.  *)
(***************************************************************************)
EXTENDS Integers, Sequences, FiniteSets, TLC

(***************************************************************************)
(* Program constants.                                                      *)
(***************************************************************************)
MAX_SEED_LENGTH == 32
PUBLIC_KEY_LENGTH == 32
SIGNATURE_LENGTH == 64
\* Modulus of uint8_t, the type of the header counts and of the indices.
UINT8_MOD == 256

(***************************************************************************)
(* Bounds of the model.                                                    *)
(***************************************************************************)
\* Instructions per transaction built from the small instructions.
MaxInstructions == 2
\* A transaction referencing more accounts than this is not extended.
MaxAccountRefs == 2
\* Counts handed to the compact-length encoder lie in 0..MaxLength.
MaxLength == 17000
\* The number of seeds handed to the address derivation.
MaxSeeds == 2
\* The halves of a secret key are numbered 0..MaxHalf.
MaxHalf == 2
\* The longest byte string handed to base64, "hello" aside.
MaxData == 4
\* The number of calls a process makes.
MaxCalls == 3
\* The largest number a response carries as its value.
MaxNumber == 1

(***************************************************************************)
(* Sequence helpers.                                                       *)
(***************************************************************************)
\* for (auto& x : s) acc = Op(acc, x), the elements of s taken in order.
\* The range is halved at each call and the left half is evaluated (the
\* test left = left) before the right half is entered, so that the depth
\* of the evaluation grows with the logarithm of the length.
RECURSIVE FoldRange(_, _, _, _, _)
FoldRange(Op(_, _), s, lo, hi, acc) ==
  IF lo > hi THEN acc
  ELSE IF lo = hi THEN Op(acc, s[lo])
  ELSE LET mid == (lo + hi) \div 2
           left == FoldRange(Op, s, lo, mid, acc)
       IN IF left = left THEN FoldRange(Op, s, mid + 1, hi, left) ELSE acc

Fold(Op(_, _), s, acc) == FoldRange(Op, s, 1, Len(s), acc)

\* The least element of a non-empty set of numbers.
Min(S) == CHOOSE i \in S : \A j \in S : i <= j

(***************************************************************************)
(* PublicKey: PUBLIC_KEY_LENGTH bytes.                                     *)
(***************************************************************************)
\* PublicKey(const uint8_t*): the key whose first two bytes spell n
\* (big-endian) and whose other bytes are zero.
Addr(n) == [i \in 1..PUBLIC_KEY_LENGTH |->
              IF i = 1 THEN n \div UINT8_MOD
              ELSE IF i = 2 THEN n % UINT8_MOD
              ELSE 0]

\* PublicKey::operator==: no position holds different bytes.
KeyEq(a, b) == \A i \in 1..PUBLIC_KEY_LENGTH : a[i] = b[i]

\* operator< comparing the first byte only.
KeyLess_FirstByte(a, b) == a[1] < b[1]

\* PublicKey::operator<: the first position that differs, if there is one,
\* holds the smaller byte.
KeyLess(a, b) ==
  /\ ~KeyEq(a, b)
  /\ LET i == CHOOSE i \in 1..PUBLIC_KEY_LENGTH :
                 a[i] # b[i] /\ \A j \in 1..(i - 1) : a[j] = b[j]
     IN a[i] < b[i]

\* std::find over a vector of PublicKey: the least position holding a key
\* equal to k, or Len(keys) + 1 for the end iterator.
FindKey(keys, k) ==
  LET hits == {i \in 1..Len(keys) : KeyEq(keys[i], k)}
  IN IF hits = {} THEN Len(keys) + 1 ELSE Min(hits)

\* std::find over a vector of AccountMeta: AccountMeta::operator== compares
\* the pubkey only.
FindMeta(metas, k) ==
  LET hits == {i \in 1..Len(metas) : KeyEq(metas[i].pubkey, k)}
  IN IF hits = {} THEN Len(metas) + 1 ELSE Min(hits)

(***************************************************************************)
(* Keypair: the secret key is abstracted to the number it was expanded     *)
(* from; the public key is the address derived from it.                    *)
(***************************************************************************)
Keypair(n) == [secretKey |-> n, publicKey |-> Addr(n)]

(***************************************************************************)
(* Transaction::Message::compile                                           *)
(***************************************************************************)
AccountMeta(k, s, w) == [pubkey |-> k, isSigner |-> s, isWritable |-> w]

\* The account loop with the flags of the latest occurrence kept instead of
\* those of the first.
CollectAccount_LastWins(accountMetas, account) ==
  LET found == FindMeta(accountMetas, account.pubkey) IN
  IF found = Len(accountMetas) + 1
  THEN Append(accountMetas, account)
  ELSE [accountMetas EXCEPT ![found] = account]

\* The first loop: every account of every instruction, in order, is kept
\* the first time its pubkey is seen.
CollectAccount(accountMetas, account) ==
  IF FindMeta(accountMetas, account.pubkey) = Len(accountMetas) + 1
  THEN Append(accountMetas, account)
  ELSE accountMetas

CollectInstruction(accountMetas, instruction) ==
  Fold(CollectAccount, instruction.accounts, accountMetas)

CollectAccounts(instructions) == Fold(CollectInstruction, instructions, <<>>)

\* The second loop: a program id is appended, read-only and unsigned, the
\* first time it is seen among the program ids.
CollectProgramId(acc, instruction) ==
  LET programId == instruction.programId IN
  IF FindKey(acc.programIds, programId) = Len(acc.programIds) + 1
  THEN [programIds |-> Append(acc.programIds, programId),
        accountMetas |-> Append(acc.accountMetas, AccountMeta(programId, FALSE, FALSE))]
  ELSE acc

CollectProgramIds(instructions, accountMetas) ==
  Fold(CollectProgramId, instructions,
       [programIds |-> <<>>, accountMetas |-> accountMetas]).accountMetas

\* The comparator handed to std::sort.
MetaLess(a, b) ==
  IF a.isSigner # b.isSigner THEN a.isSigner
  ELSE IF a.isWritable # b.isWritable THEN a.isWritable
  ELSE KeyLess(a.pubkey, b.pubkey)

\* std::sort: entries the comparator leaves unordered have the same pubkey
\* and the same flags, so the sorted sequence is unique; it is built by
\* inserting each entry before the first entry it is less than.
InsertMeta(sorted, x) ==
  LET after == {i \in 1..Len(sorted) : MetaLess(x, sorted[i])}
  IN IF after = {} THEN Append(sorted, x)
     ELSE LET i == Min(after)
          IN SubSeq(sorted, 1, i - 1) \o <<x>> \o SubSeq(sorted, i, Len(sorted))

SortMetas(metas) == Fold(InsertMeta, metas, <<>>)

\* "Move fee payer to the front".
MoveFeePayer(accountMetas, fee_payer) ==
  LET feePayerIndex == FindMeta(accountMetas, fee_payer) IN
  IF feePayerIndex # Len(accountMetas) + 1
  THEN LET payerMeta == accountMetas[feePayerIndex]
           erased == SubSeq(accountMetas, 1, feePayerIndex - 1)
                       \o SubSeq(accountMetas, feePayerIndex + 1, Len(accountMetas))
       IN <<[payerMeta EXCEPT !.isSigner = TRUE, !.isWritable = TRUE]>> \o erased
  ELSE <<AccountMeta(fee_payer, TRUE, TRUE)>> \o accountMetas

\* The account list compile works on once the fee payer is in front.
PromotedMetas(instructions, signers) ==
  MoveFeePayer(
    SortMetas(CollectProgramIds(instructions, CollectAccounts(instructions))),
    signers[1].publicKey)

\* "Split out signing from non-signing keys and count header values": the
\* three counters are uint8_t.
SplitKey(acc, accountMeta) ==
  IF accountMeta.isSigner
  THEN [acc EXCEPT
          !.signedKeys = Append(@, accountMeta.pubkey),
          !.numRequiredSignatures = (@ + 1) % UINT8_MOD,
          !.numReadonlySignedAccounts =
             IF ~accountMeta.isWritable THEN (@ + 1) % UINT8_MOD ELSE @]
  ELSE [acc EXCEPT
          !.unsignedKeys = Append(@, accountMeta.pubkey),
          !.numReadonlyUnsignedAccounts =
             IF ~accountMeta.isWritable THEN (@ + 1) % UINT8_MOD ELSE @]

SplitKeys(accountMetas) ==
  Fold(SplitKey, accountMetas,
       [signedKeys |-> <<>>, unsignedKeys |-> <<>>,
        numRequiredSignatures |-> 0,
        numReadonlySignedAccounts |-> 0,
        numReadonlyUnsignedAccounts |-> 0])

\* One compiled instruction: each account's index in accountKeys, narrowed
\* to the uint8_t element of the index vector ("Unknown account" when
\* std::find returns the end iterator), and the program's index, cast to
\* uint8_t.
CompileInstruction(instruction, accountKeys) ==
  LET indexes == [i \in 1..Len(instruction.accounts) |->
                    FindKey(accountKeys, instruction.accounts[i].pubkey)]
  IN [ok |-> \A i \in 1..Len(indexes) : indexes[i] # Len(accountKeys) + 1,
      instruction |->
        [accounts |-> [i \in 1..Len(indexes) |-> (indexes[i] - 1) % UINT8_MOD],
         data |-> instruction.data,
         programIdIndex |->
           (FindKey(accountKeys, instruction.programId) - 1) % UINT8_MOD]]

\* The last loop: one compiled instruction per instruction, in order.
CompileInstructions(instructions, accountKeys) ==
  LET compiled == [i \in 1..Len(instructions) |->
                     CompileInstruction(instructions[i], accountKeys)]
  IN [ok |-> \A i \in 1..Len(compiled) : compiled[i].ok,
      instructions |-> [i \in 1..Len(compiled) |-> compiled[i].instruction]]

NoMessage == [header |-> [numRequiredSignatures |-> 0,
                          numReadonlySignedAccounts |-> 0,
                          numReadonlyUnsignedAccounts |-> 0],
              accountKeys |-> <<>>,
              recentBlockhash |-> Addr(0),
              instructions |-> <<>>]

\* compile, from the account list to the compiled message: [ok, error,
\* message]; message is meaningful only when ok.
CompileBody(instructions, recentBlockhash, signers) ==
  LET accountMetas == PromotedMetas(instructions, signers)
      split == SplitKeys(accountMetas)
      accountKeys == split.signedKeys \o split.unsignedKeys
      compiled == CompileInstructions(instructions, accountKeys)
  IN IF ~compiled.ok
     THEN [ok |-> FALSE, error |-> "Unknown account", message |-> NoMessage]
     ELSE [ok |-> TRUE, error |-> "",
           message |->
             [header |-> [numRequiredSignatures |-> split.numRequiredSignatures,
                          numReadonlySignedAccounts |-> split.numReadonlySignedAccounts,
                          numReadonlyUnsignedAccounts |-> split.numReadonlyUnsignedAccounts],
              accountKeys |-> accountKeys,
              recentBlockhash |-> recentBlockhash,
              instructions |-> compiled.instructions]]

\* Compile without the check that there are instructions.
Compile_NoInstructionsCheck(instructions, recentBlockhash, signers) ==
  IF Len(signers) = 0
  THEN [ok |-> FALSE, error |-> "No signers provided", message |-> NoMessage]
  ELSE CompileBody(instructions, recentBlockhash, signers)

\* compile(signers) on a message with the given instructions and blockhash.
Compile(instructions, recentBlockhash, signers) ==
  IF instructions = <<>>
  THEN [ok |-> FALSE, error |-> "No instructions provided", message |-> NoMessage]
  ELSE IF Len(signers) = 0
  THEN [ok |-> FALSE, error |-> "No signers provided", message |-> NoMessage]
  ELSE CompileBody(instructions, recentBlockhash, signers)

(***************************************************************************)
(* encode_length, ASSERT (many.hpp) and Keypair::sign                      *)
(***************************************************************************)
\* encode_length with the one-byte range taken one too far.
RECURSIVE EncodeLength_Threshold(_)
EncodeLength_Threshold(n) ==
  IF n <= 128 THEN <<n>>
  ELSE <<(n % 128) + 128>> \o EncodeLength_Threshold(n \div 128)

\* encode_length(n): the compact length of n, base 128, least significant
\* group first, every byte but the last carrying the continuation bit.
RECURSIVE EncodeLength(_)
EncodeLength(n) ==
  IF n < 128 THEN <<n>>
  ELSE <<(n % 128) + 128>> \o EncodeLength(n \div 128)

\* ASSERT(condition): TRUE when execution continues past the assertion; a
\* failed assertion raises and the rest of the function is not run.
ASSERT(condition) == condition

\* Keypair::sign: the detached signature of message under the signer's
\* secret key, SIGNATURE_LENGTH bytes determined by the key, the length of
\* the message and its leading bytes.
KeypairSign(signer, message) ==
  [i \in 1..SIGNATURE_LENGTH |->
     (signer.secretKey + Len(message)
        + (IF i <= Len(message) THEN message[i] ELSE 0)) % UINT8_MOD]

(***************************************************************************)
(* CompiledTransaction::Message::serialize                                 *)
(***************************************************************************)
\* serialized_message.insert(end, key.bytes.begin(), key.bytes.end())
InsertKey(buffer, key) == buffer \o key

\* InsertInstruction without the compact length of the payload.
InsertInstruction_NoDataLength(buffer, instruction) ==
  buffer
    \o <<instruction.programIdIndex>>
    \o EncodeLength(Len(instruction.accounts))
    \o instruction.accounts
    \o instruction.data

\* The body of the loop over the instructions.
InsertInstruction(buffer, instruction) ==
  buffer
    \o <<instruction.programIdIndex>>
    \o EncodeLength(Len(instruction.accounts))
    \o instruction.accounts
    \o EncodeLength(Len(instruction.data))
    \o instruction.data

\* The bytes serialize pushes onto the buffer once both checks have passed.
MessageBytes(message) ==
  LET header == <<message.header.numRequiredSignatures,
                  message.header.numReadonlySignedAccounts,
                  message.header.numReadonlyUnsignedAccounts>>
      keyCount == EncodeLength(Len(message.accountKeys))
      keys == Fold(InsertKey, message.accountKeys, header \o keyCount)
      instructionCount == EncodeLength(Len(message.instructions))
  IN Fold(InsertInstruction, message.instructions,
          keys \o message.recentBlockhash \o instructionCount)

\* MessageSerialize without the check that the buffer is empty.
MessageSerialize_NoEmptyCheck(message, buffer) ==
  IF message.header.numRequiredSignatures = 0
  THEN [ok |-> FALSE, error |-> "Message must have at least one signature",
        buffer |-> buffer]
  ELSE [ok |-> TRUE, error |-> "", buffer |-> buffer \o MessageBytes(message)]

\* serialize(serialized_message): [ok, buffer].
MessageSerialize(message, buffer) ==
  IF Len(buffer) > 0
  THEN [ok |-> FALSE, error |-> "Message is already serialized", buffer |-> buffer]
  ELSE IF message.header.numRequiredSignatures = 0
  THEN [ok |-> FALSE, error |-> "Message must have at least one signature",
        buffer |-> buffer]
  ELSE [ok |-> TRUE, error |-> "", buffer |-> buffer \o MessageBytes(message)]

(***************************************************************************)
(* CompiledTransaction::serialize and CompiledTransaction::sign            *)
(***************************************************************************)
\* The loop over the signatures: each must be SIGNATURE_LENGTH bytes.
InsertSignature(acc, signature) ==
  IF acc.ok /\ ASSERT(Len(signature) = SIGNATURE_LENGTH)
  THEN [acc EXCEPT !.buffer = @ \o signature]
  ELSE [acc EXCEPT !.ok = FALSE]

\* TransactionSerialize with the message put before the signatures.
TransactionSerialize_MessageFirst(signatures, message_bytes) ==
  LET signed == Fold(InsertSignature, signatures,
                     [ok |-> TRUE, buffer |-> message_bytes])
  IN IF ~signed.ok
     THEN [ok |-> FALSE, error |-> "ASSERT", buffer |-> <<>>]
     ELSE IF Len(message_bytes) = 0
     THEN [ok |-> FALSE, error |-> "Message is not serialized", buffer |-> <<>>]
     ELSE [ok |-> TRUE, error |-> "",
           buffer |-> EncodeLength(Len(signatures)) \o signed.buffer]

\* serialize(serialized_message): [ok, buffer], buffer the returned vector.
TransactionSerialize(signatures, message_bytes) ==
  LET signaturesLength == EncodeLength(Len(signatures))
      signed == Fold(InsertSignature, signatures,
                     [ok |-> TRUE, buffer |-> signaturesLength])
  IN IF ~signed.ok
     THEN [ok |-> FALSE, error |-> "ASSERT", buffer |-> <<>>]
     ELSE IF Len(message_bytes) = 0
     THEN [ok |-> FALSE, error |-> "Message is not serialized", buffer |-> <<>>]
     ELSE [ok |-> TRUE, error |-> "", buffer |-> signed.buffer \o message_bytes]

\* TransactionSign with each signature put in front of the earlier ones.
TransactionSign_Reversed(signatures, message_bytes, signers) ==
  IF ~ASSERT(Len(signatures) = 0)
  THEN [ok |-> FALSE, signatures |-> signatures]
  ELSE LET Push(sigs, signer) == <<KeypairSign(signer, message_bytes)>> \o sigs
       IN [ok |-> TRUE, signatures |-> Fold(Push, signers, signatures)]

\* TransactionSign without the assertion that there are no signatures yet.
TransactionSign_NoAssert(signatures, message_bytes, signers) ==
  LET Push(sigs, signer) == Append(sigs, KeypairSign(signer, message_bytes))
  IN [ok |-> TRUE, signatures |-> Fold(Push, signers, signatures)]

\* sign(serialized_message, signers): [ok, signatures]; each signer's
\* signature of the message is pushed, in the order of the signer list.
TransactionSign(signatures, message_bytes, signers) ==
  IF ~ASSERT(Len(signatures) = 0)
  THEN [ok |-> FALSE, signatures |-> signatures]
  ELSE LET Push(sigs, signer) == Append(sigs, KeypairSign(signer, message_bytes))
       IN [ok |-> TRUE, signatures |-> Fold(Push, signers, signatures)]

(***************************************************************************)
(* PublicKey::is_on_curve, create_program_address, find_program_address    *)
(***************************************************************************)
\* std::string ProgramDerivedAddress = "ProgramDerivedAddress", in ASCII.
ProgramDerivedAddress ==
  <<80, 114, 111, 103, 114, 97, 109,
    68, 101, 114, 105, 118, 101, 100,
    65, 100, 100, 114, 101, 115, 115>>

\* crypto_hash_sha256(hash, buffer.data(), buffer.size()): the library's
\* digest is stood for by a digest of PUBLIC_KEY_LENGTH bytes that depends
\* on every byte of the buffer, on its position and on the length.
Sha256Step(h, byte) ==
  [count |-> h.count + 1,
   sum |-> (h.sum + byte) % UINT8_MOD,
   weighted |-> (h.weighted + (h.count + 1) * byte) % UINT8_MOD]

Sha256(buffer) ==
  LET h == Fold(Sha256Step, buffer, [count |-> 0, sum |-> 0, weighted |-> 0])
  IN [i \in 1..PUBLIC_KEY_LENGTH |-> (h.sum + i * h.weighted + h.count) % UINT8_MOD]

\* is_on_curve: the library's test (canonical encoding, then decoding to a
\* point) is stood for by a fixed set of byte strings, dense enough that the
\* search of find_program_address runs from one attempt to all of them.
IsOnCurve(bytes) == bytes[1] % 16 # 0

\* The value of an empty std::optional<PublicKey>.
NoKey == [i \in 1..PUBLIC_KEY_LENGTH |-> 0]

\* The body of the loop over the seeds: a seed that is too long throws.
AppendSeed(acc, seed) ==
  IF ~acc.ok THEN acc
  ELSE IF Len(seed) > MAX_SEED_LENGTH THEN [acc EXCEPT !.ok = FALSE]
  ELSE [acc EXCEPT !.buffer = @ \o seed]

\* CreateProgramAddress with the length checked on the first seed only.
CreateProgramAddress_FirstSeedOnly(seeds, program_id) ==
  LET Insert(buffer, seed) == buffer \o seed
      buffer == Fold(Insert, seeds, <<>>) \o program_id \o ProgramDerivedAddress
      pubkey == Sha256(buffer)
  IN IF Len(seeds) > 0 /\ Len(seeds[1]) > MAX_SEED_LENGTH
     THEN [ok |-> FALSE, error |-> "Max seed length exceeded",
           has_value |-> FALSE, value |-> NoKey]
     ELSE IF IsOnCurve(pubkey)
     THEN [ok |-> TRUE, error |-> "", has_value |-> FALSE, value |-> NoKey]
     ELSE [ok |-> TRUE, error |-> "", has_value |-> TRUE, value |-> pubkey]

\* CreateProgramAddress with the program put before the seeds.
CreateProgramAddress_ProgramFirst(seeds, program_id) ==
  LET filled == Fold(AppendSeed, seeds, [ok |-> TRUE, buffer |-> <<>>])
  IN IF ~filled.ok
     THEN [ok |-> FALSE, error |-> "Max seed length exceeded",
           has_value |-> FALSE, value |-> NoKey]
     ELSE LET buffer == program_id \o filled.buffer \o ProgramDerivedAddress
              pubkey == Sha256(buffer)
          IN IF IsOnCurve(pubkey)
             THEN [ok |-> TRUE, error |-> "", has_value |-> FALSE, value |-> NoKey]
             ELSE [ok |-> TRUE, error |-> "", has_value |-> TRUE, value |-> pubkey]

\* create_program_address(seeds, program_id): [ok, error, has_value, value];
\* ok is FALSE when the call throws, has_value is FALSE for std::nullopt.
CreateProgramAddress(seeds, program_id) ==
  LET filled == Fold(AppendSeed, seeds, [ok |-> TRUE, buffer |-> <<>>])
  IN IF ~filled.ok
     THEN [ok |-> FALSE, error |-> "Max seed length exceeded",
           has_value |-> FALSE, value |-> NoKey]
     ELSE LET buffer == filled.buffer \o program_id \o ProgramDerivedAddress
              pubkey == Sha256(buffer)
          IN IF IsOnCurve(pubkey)
             THEN [ok |-> TRUE, error |-> "", has_value |-> FALSE, value |-> NoKey]
             ELSE [ok |-> TRUE, error |-> "", has_value |-> TRUE, value |-> pubkey]

\* The while loop runs at most once per value of a uint8_t.
Iterations == [i \in 1..UINT8_MOD |-> i]

\* FindProgramAddress with the search started one nonce too low.
FindProgramAddress_SkipsFirst(seeds, programId) ==
  LET Step(loop, i) ==
        IF loop.returned \/ loop.thrown \/ loop.nonce = 0 THEN loop
        ELSE LET seedsWithNonce == Append(seeds, <<loop.nonce>>)
                 address == CreateProgramAddress(seedsWithNonce, programId)
                 tried == [loop EXCEPT !.attempts = Append(@, loop.nonce)]
             IN IF ~address.ok
                THEN [tried EXCEPT !.thrown = TRUE, !.error = address.error]
                ELSE IF address.has_value
                THEN [tried EXCEPT !.returned = TRUE, !.address = address.value]
                ELSE [tried EXCEPT !.nonce = (@ + UINT8_MOD - 1) % UINT8_MOD]
      loop == Fold(Step, Iterations,
                   [nonce |-> UINT8_MOD - 2, returned |-> FALSE, thrown |-> FALSE,
                    error |-> "", address |-> NoKey, attempts |-> <<>>])
  IN IF loop.returned
     THEN [ok |-> TRUE, error |-> "", address |-> loop.address,
           nonce |-> loop.nonce, attempts |-> loop.attempts]
     ELSE [ok |-> FALSE,
           error |-> IF loop.thrown THEN loop.error
                     ELSE "Unable to find a viable program address nonce",
           address |-> NoKey, nonce |-> loop.nonce, attempts |-> loop.attempts]

\* find_program_address(seeds, programId): [ok, error, address, nonce,
\* attempts]; attempts lists the nonces handed to create_program_address.
FindProgramAddress(seeds, programId) ==
  LET Step(loop, i) ==
        IF loop.returned \/ loop.thrown \/ loop.nonce = 0 THEN loop
        ELSE LET seedsWithNonce == Append(seeds, <<loop.nonce>>)
                 address == CreateProgramAddress(seedsWithNonce, programId)
                 tried == [loop EXCEPT !.attempts = Append(@, loop.nonce)]
             IN IF ~address.ok
                THEN [tried EXCEPT !.thrown = TRUE, !.error = address.error]
                ELSE IF address.has_value
                THEN [tried EXCEPT !.returned = TRUE, !.address = address.value]
                ELSE [tried EXCEPT !.nonce = (@ + UINT8_MOD - 1) % UINT8_MOD]
      loop == Fold(Step, Iterations,
                   [nonce |-> UINT8_MOD - 1, returned |-> FALSE, thrown |-> FALSE,
                    error |-> "", address |-> NoKey, attempts |-> <<>>])
  IN IF loop.returned
     THEN [ok |-> TRUE, error |-> "", address |-> loop.address,
           nonce |-> loop.nonce, attempts |-> loop.attempts]
     ELSE [ok |-> FALSE,
           error |-> IF loop.thrown THEN loop.error
                     ELSE "Unable to find a viable program address nonce",
           address |-> NoKey, nonce |-> loop.nonce, attempts |-> loop.attempts]

(***************************************************************************)
(* base58 (many.hpp), PublicKey(const std::string&) and to_base58          *)
(***************************************************************************)
\* The base-58 digits, in the order of their values 0..57.
Alphabet ==
  <<"1", "2", "3", "4", "5", "6", "7", "8", "9",
    "A", "B", "C", "D", "E", "F", "G", "H", "J", "K", "L", "M", "N", "P", "Q",
    "R", "S", "T", "U", "V", "W", "X", "Y", "Z",
    "a", "b", "c", "d", "e", "f", "g", "h", "i", "j", "k", "m", "n", "o", "p",
    "q", "r", "s", "t", "u", "v", "w", "x", "y", "z">>

\* The number of elements at the head of s that equal x.
LeadingCount(s, x) ==
  LET others == {i \in 1..Len(s) : s[i] # x}
  IN IF others = {} THEN Len(s) ELSE Min(others) - 1

\* One pass over a number kept as digits of the given base, most
\* significant first: number * factor + carry, the overflow dropped.
RECURSIVE MulAdd(_, _, _, _, _)
MulAdd(digits, j, factor, carry, base) ==
  IF j = 0 THEN [digits |-> digits, carry |-> carry]
  ELSE LET t == digits[j] * factor + carry
       IN MulAdd([digits EXCEPT ![j] = t % base], j - 1, factor, t \div base, base)

\* b58enc(b58, &b58sz, bin, binsz): [ok, b58, b58sz]; b58 is the text
\* without its terminator, b58sz counts the terminator.
B58Enc(b58sz, bin) ==
  LET zcount == LeadingCount(bin, 0)
      size == ((Len(bin) - zcount) * 138) \div 100 + 1
      Push(buf, byte) == MulAdd(buf, size, UINT8_MOD, byte, Len(Alphabet)).digits
      buf == Fold(Push, SubSeq(bin, zcount + 1, Len(bin)), [i \in 1..size |-> 0])
      skipped == LeadingCount(buf, 0)
      text == [i \in 1..zcount |-> Alphabet[1]]
                \o [i \in 1..(size - skipped) |-> Alphabet[buf[skipped + i] + 1]]
  IN IF b58sz <= Len(text)
     THEN [ok |-> FALSE, b58 |-> <<>>, b58sz |-> Len(text) + 1]
     ELSE [ok |-> TRUE, b58 |-> text, b58sz |-> Len(text) + 1]

\* b58tobin(bin, &binsz, b58, 0): [ok, bin]; the number is written right
\* aligned into the binsz bytes of bin; a character outside the alphabet or
\* a number that does not fit fails.
B58ToBin(binsz, b58) ==
  LET zerocount == LeadingCount(b58, Alphabet[1])
      Value(c) == Min({d \in 1..Len(Alphabet) : Alphabet[d] = c}) - 1
      Push(acc, c) ==
        IF ~acc.ok THEN acc
        ELSE IF \A d \in 1..Len(Alphabet) : Alphabet[d] # c
        THEN [acc EXCEPT !.ok = FALSE]
        ELSE LET pass == MulAdd(acc.bin, binsz, Len(Alphabet), Value(c), UINT8_MOD)
             IN [ok |-> pass.carry = 0, bin |-> pass.digits]
  IN Fold(Push, SubSeq(b58, zerocount + 1, Len(b58)),
          [ok |-> TRUE, bin |-> [i \in 1..binsz |-> 0]])

\* The size of the buffer to_base58 encodes into.
Base58BufferSize == 45

\* to_base58 with the last character dropped as well as the terminator.
ToBase58_DropLast(bytes) ==
  LET encoded == B58Enc(Base58BufferSize, bytes)
  IN SubSeq(encoded.b58, 1, encoded.b58sz - 2)

\* to_base58(): std::string(temp, size - 1), the text without its terminator.
ToBase58(bytes) ==
  LET encoded == B58Enc(Base58BufferSize, bytes)
  IN SubSeq(encoded.b58, 1, encoded.b58sz - 1)

\* PublicKey(const std::string& value): [ok, bytes]; when the decoder fails
\* the bytes of the key are left as they were, uninitialized.
FromBase58(value) ==
  LET decoded == B58ToBin(PUBLIC_KEY_LENGTH, value)
  IN [ok |-> decoded.ok, bytes |-> decoded.bin]

(***************************************************************************)
(* Result<T>, ResultError and from_json(const json&, Result<T>&), with T a  *)
(* number (uint64_t, as in get_balance).                                   *)
(***************************************************************************)
\* std::optional: std::nullopt and a held value.
None == [has_value |-> FALSE]
Some(v) == [has_value |-> TRUE, value |-> v]

\* JSON values: null, a number, an object with the members named in keys.
JsonNull == [type |-> "null"]
JsonNumber(n) == [type |-> "number", number |-> n]
JsonObject(keys, context, value) ==
  [type |-> "object", keys |-> keys, context |-> context, value |-> value]

\* j.contains(key): false for anything but an object.
Contains(j, key) == j.type = "object" /\ key \in j.keys
\* j.is_null()
IsNull(j) == j.type = "null"

\* j.get<T>(): [ok, value]; anything but a number throws a type error.
GetValue(j) ==
  IF j.type = "number" THEN [ok |-> TRUE, value |-> j.number]
  ELSE [ok |-> FALSE, value |-> 0]

\* j.get<Context>(): the slot of the context.
GetContext(j) == [slot |-> j.slot]

\* from_json(j, ResultError&): code and message are copied.
GetResultError(j) == [code |-> j.code, message |-> j.message]

\* Result() = default
EmptyResult == [context |-> None, result |-> None, error |-> None]

\* FromJson with a null value stored as the number 0.
FromJson_NullAsZero(j, r) ==
  IF "result" \in j.keys
  THEN LET withContext ==
             IF Contains(j.result, "context")
             THEN [r EXCEPT !.context = Some(GetContext(j.result.context))]
             ELSE r
           source == IF Contains(j.result, "value") THEN j.result.value ELSE j.result
       IN IF IsNull(source)
          THEN [ok |-> TRUE, r |-> [withContext EXCEPT !.result = Some(0)]]
          ELSE IF ~GetValue(source).ok THEN [ok |-> FALSE, r |-> withContext]
          ELSE [ok |-> TRUE,
                r |-> [withContext EXCEPT !.result = Some(GetValue(source).value)]]
  ELSE IF "error" \in j.keys
  THEN [ok |-> TRUE, r |-> [r EXCEPT !.error = Some(GetResultError(j.error))]]
  ELSE [ok |-> TRUE, r |-> r]

\* from_json(j, r): [ok, r]; ok is FALSE when a get throws, r is the Result
\* as the call leaves it.
FromJson(j, r) ==
  IF "result" \in j.keys
  THEN LET withContext ==
             IF Contains(j.result, "context")
             THEN [r EXCEPT !.context = Some(GetContext(j.result.context))]
             ELSE r
           source == IF Contains(j.result, "value") THEN j.result.value ELSE j.result
       IN IF IsNull(source) THEN [ok |-> TRUE, r |-> withContext]
          ELSE IF ~GetValue(source).ok THEN [ok |-> FALSE, r |-> withContext]
          ELSE [ok |-> TRUE,
                r |-> [withContext EXCEPT !.result = Some(GetValue(source).value)]]
  ELSE IF "error" \in j.keys
  THEN [ok |-> TRUE, r |-> [r EXCEPT !.error = Some(GetResultError(j.error))]]
  ELSE [ok |-> TRUE, r |-> r]

\* Unwrap without the test of the error slot.
Unwrap_NoErrorCheck(r) ==
  IF r.result.has_value
  THEN [ok |-> TRUE, fault |-> "", message |-> "", value |-> r.result.value]
  ELSE [ok |-> FALSE, fault |-> "bad_optional_access", message |-> "", value |-> 0]

\* unwrap(): [ok, fault, message, value]; a set error is thrown as a
\* runtime_error with its message, an empty value slot makes value() throw.
Unwrap(r) ==
  IF r.error.has_value
  THEN [ok |-> FALSE, fault |-> "runtime_error",
        message |-> r.error.value.message, value |-> 0]
  ELSE IF r.result.has_value
  THEN [ok |-> TRUE, fault |-> "", message |-> "", value |-> r.result.value]
  ELSE [ok |-> FALSE, fault |-> "bad_optional_access", message |-> "", value |-> 0]

(***************************************************************************)
(* The inputs of the model.                                                *)
(***************************************************************************)
\* Addresses the accounts of the small instructions are drawn from.
Keys == {Addr(1), Addr(2)}
\* Signer lists: empty; led by a signer whose address instructions may
\* reference as an account or as a program; led by a signer nothing references.
SignerLists == {<<>>, <<Keypair(1)>>, <<Keypair(2)>>, <<Keypair(4), Keypair(1)>>}

AccountMetaSet == {AccountMeta(k, s, w) : k \in Keys, s \in BOOLEAN, w \in BOOLEAN}
AccountLists == {<<>>} \cup {<<m>> : m \in AccountMetaSet}

\* Programs with the payload sent to them: a program whose address is also
\* an account address, and one whose address is not.
ProgramSet == {[programId |-> Addr(2), data |-> <<>>],
               [programId |-> Addr(3), data |-> <<7, 8>>]}

InstructionSet ==
  {[programId |-> p.programId, accounts |-> a, data |-> p.data] :
     p \in ProgramSet, a \in AccountLists}

\* An instruction with n read-only accounts Addr(WideBase + 1) ..
\* Addr(WideBase + n), all signers or none: n takes the sizes at which a
\* uint8_t count or index wraps.
WideBase == 16
WideSizes == {UINT8_MOD - 1, UINT8_MOD}
WideInstruction(n, s) ==
  [programId |-> Addr(3),
   accounts |-> [i \in 1..n |-> AccountMeta(Addr(WideBase + i), s, FALSE)],
   data |-> <<7, 8>>]
WideInstructionSet == {WideInstruction(n, s) : n \in WideSizes, s \in BOOLEAN}

\* Number of account references of an instruction list.
RECURSIVE AccountRefs(_)
AccountRefs(instructions) ==
  IF instructions = <<>> THEN 0
  ELSE Len(Head(instructions).accounts) + AccountRefs(Tail(instructions))

\* A seed of n bytes, each b.
Seed(n, b) == [i \in 1..n |-> b]
\* Seed lengths: empty, short, and around the longest seed allowed.
SeedLengths == {0, 1, MAX_SEED_LENGTH - 1, MAX_SEED_LENGTH, MAX_SEED_LENGTH + 1}
SeedSet == {Seed(n, b) : n \in SeedLengths, b \in {1, 2}}
SeedLists == UNION {[1..n -> SeedSet] : n \in 0..MaxSeeds}
Programs == {Addr(2), Addr(3)}

\* 32-byte values: z leading zero bytes, then the byte b, then bytes f.
KeySample(z, b, f) ==
  [i \in 1..PUBLIC_KEY_LENGTH |-> IF i <= z THEN 0 ELSE IF i = z + 1 THEN b ELSE f]
KeySamples ==
  {KeySample(z, b, f) :
     z \in {0, 1, 2, PUBLIC_KEY_LENGTH - 2, PUBLIC_KEY_LENGTH - 1, PUBLIC_KEY_LENGTH},
     b \in {1, 57, 58, UINT8_MOD - 1},
     f \in {0, 1, UINT8_MOD - 1}}

\* Responses of the node: any of the members result and error; the result
\* null, a number, or an object with any of the members context and value.
JsonContext == [slot |-> 5]
JsonValues == {JsonNull} \cup {JsonNumber(n) : n \in 0..MaxNumber}
JsonResults ==
  JsonValues
    \cup {JsonObject(keys, JsonContext, JsonNull) : keys \in SUBSET {"context"}}
    \cup {JsonObject(keys \cup {"value"}, JsonContext, v) :
            keys \in SUBSET {"context"}, v \in JsonValues}
JsonErrors == {[code |-> 0 - 32002, message |-> "Transaction simulation failed"],
               [code |-> 429, message |-> "Too many requests"]}
Responses ==
  {[keys |-> {}, result |-> JsonNull, error |-> JsonNull]}
    \cup {[keys |-> {"error"}, result |-> JsonNull, error |-> e] : e \in JsonErrors}
    \cup {[keys |-> {"result"}, result |-> v, error |-> JsonNull] : v \in JsonResults}
    \cup {[keys |-> {"result", "error"}, result |-> v, error |-> e] :
            v \in JsonResults, e \in JsonErrors}

(***************************************************************************)
(* State.                                                                  *)
(***************************************************************************)
VARIABLES
  transaction,            \* Transaction: signatures, recentBlockhash, instructions
  compiled_transaction,   \* CompiledTransaction: message, signatures
  serialized_message,     \* the caller's buffer Message::serialize fills
  serialized_transaction, \* what CompiledTransaction::serialize returned last
  last,                   \* the last call: its name, outcome and arguments
  length,                 \* the count last handed to encode_length
  encoded,                \* what encode_length returned for it
  seeds,                  \* the seeds handed to the address derivation
  programId,              \* the program handed to the address derivation
  derived,                \* what create/find_program_address returned
  pubkey,                 \* a PublicKey built from bytes
  base58,                 \* what to_base58 returned for it
  parsed,                 \* the PublicKey built from that text
  response,               \* the response of the node, as JSON
  result,                 \* the Result<T> decoded from it
  unwrapped,              \* what unwrap returned or threw
  operands,               \* the PublicKeys handed to operator< and operator==
  comparison,             \* what the operators and the account sort returned
  file,                   \* the secret key file handed to Keypair::from_file
  keypair,                \* the Keypair construction called last and its outcome
  data,                   \* the bytes handed to base64::encode
  text,                   \* what base64::encode returned for them
  decoded,                \* what base64::decode returned for that text
  node,                   \* how the remote node answers each method
  calls,                  \* the steps sign_and_send_transaction went through
  sodium                  \* the process: libsodium's state and the objects built

vars == <<transaction, compiled_transaction, serialized_message,
          serialized_transaction, last, length, encoded,
          seeds, programId, derived, pubkey, base58, parsed,
          response, result, unwrapped,
          operands, comparison, file, keypair, data, text, decoded,
          node, calls, sodium>>

wireVars == <<serialized_message, serialized_transaction>>
lengthVars == <<length, encoded>>
transactionVars == <<transaction, compiled_transaction, wireVars, lengthVars>>
addressVars == <<seeds, programId, derived>>
codecVars == <<pubkey, base58, parsed>>
resultVars == <<response, result, unwrapped>>
orderVars == <<operands, comparison>>
keypairVars == <<file, keypair>>
base64Vars == <<data, text, decoded>>
sendVars == <<node, calls>>
sodiumVars == <<sodium>>
libraryVars == <<orderVars, keypairVars, base64Vars, sendVars, sodiumVars>>

\* The values of the variables a specification does not use.
NoDerived == [ok |-> TRUE, error |-> "", has_value |-> FALSE, value |-> NoKey,
              nonce |-> 0, attempts |-> <<>>]
NoUnwrap == [ok |-> TRUE, fault |-> "", message |-> "", value |-> 0]
NoComparison == [less |-> <<>>, equal |-> <<>>, keys |-> <<>>]
NoFile == [openable |-> FALSE, size |-> 0, bytes |-> <<>>]
NoKeypair == [op |-> "none", ok |-> TRUE, error |-> "", given |-> <<>>,
              skipValidation |-> FALSE, value |-> None]
NoNode == [getLatestBlockhash |-> <<>>, sendTransaction |-> <<>>]
NoSodium == [available |-> TRUE, initialized |-> FALSE]
TransactionIdle ==
  /\ transaction = [signatures |-> <<>>,
                    recentBlockhash |-> Addr(9),
                    instructions |-> <<>>]
  /\ compiled_transaction = [message |-> NoMessage, signatures |-> <<>>]
  /\ serialized_message = <<>>
  /\ serialized_transaction = <<>>
  /\ length = 0
  /\ encoded = <<>>
AddressIdle == seeds = <<>> /\ programId = NoKey /\ derived = NoDerived
CodecIdle == pubkey = NoKey /\ base58 = <<>> /\ parsed = NoKey
ResultIdle ==
  /\ response = [keys |-> {}, result |-> JsonNull, error |-> JsonNull]
  /\ result = EmptyResult
  /\ unwrapped = NoUnwrap

OrderIdle == operands = <<>> /\ comparison = NoComparison
KeypairIdle == file = NoFile /\ keypair = NoKeypair
Base64Idle == data = <<>> /\ text = <<>> /\ decoded = <<>>
SendIdle == node = NoNode /\ calls = <<>>
SodiumIdle == sodium = NoSodium
LibraryIdle == OrderIdle /\ KeypairIdle /\ Base64Idle /\ SendIdle /\ SodiumIdle

NoCall == [op |-> "none", ok |-> TRUE, signers |-> <<>>]

Init ==
  /\ transaction = [signatures |-> <<>>,
                    recentBlockhash |-> Addr(9),
                    instructions |-> <<>>]
  /\ compiled_transaction = [message |-> NoMessage, signatures |-> <<>>]
  /\ serialized_message = <<>>
  /\ serialized_transaction = <<>>
  /\ last = NoCall
  /\ length = 0
  /\ encoded = <<>>
  /\ AddressIdle
  /\ CodecIdle
  /\ ResultIdle
  /\ LibraryIdle

(***************************************************************************)
(* Transaction::add                                                        *)
(***************************************************************************)
\* add putting the instruction in front of the list.
add_Front(instruction) ==
  /\ transaction' = [transaction EXCEPT !.instructions = <<instruction>> \o @]
  /\ last' = [op |-> "add", ok |-> TRUE, signers |-> <<>>]
  /\ UNCHANGED <<compiled_transaction, wireVars, lengthVars,
               addressVars, codecVars, resultVars, libraryVars>>

add(instruction) ==
  /\ transaction' = [transaction EXCEPT !.instructions = Append(@, instruction)]
  /\ last' = [op |-> "add", ok |-> TRUE, signers |-> <<>>]
  /\ UNCHANGED <<compiled_transaction, wireVars, lengthVars,
               addressVars, codecVars, resultVars, libraryVars>>

Add ==
  \E instruction \in InstructionSet :
    /\ Len(transaction.instructions) < MaxInstructions
    /\ AccountRefs(transaction.instructions) <= MaxAccountRefs
    /\ add(instruction)

AddWide ==
  \E instruction \in WideInstructionSet :
    /\ transaction.instructions = <<>>
    /\ add(instruction)

(***************************************************************************)
(* compiled_transaction = { .message = transaction.message.compile(signers) }*)
(***************************************************************************)
compile(signers) ==
  \E r \in {Compile(transaction.instructions, transaction.recentBlockhash, signers)} :
  /\ last' = [op |-> "compile", ok |-> r.ok, signers |-> signers]
  /\ compiled_transaction' =
       IF r.ok THEN [message |-> r.message, signatures |-> <<>>]
       ELSE compiled_transaction
  /\ UNCHANGED <<transaction, wireVars, lengthVars,
               addressVars, codecVars, resultVars, libraryVars>>

CompileCall == \E signers \in SignerLists : compile(signers)

Next == Add \/ AddWide \/ CompileCall

Spec == Init /\ [][Next]_vars

(***************************************************************************)
(* The wire: serialize the message, sign, serialize the transaction, in    *)
(* any order and any number of times, on one compiled transaction.         *)
(***************************************************************************)
\* The instruction lists the compiled transactions are compiled from.
WireInstructionLists ==
  {<<i>> : i \in InstructionSet \cup WideInstructionSet}
    \cup {<<i, j>> : i \in {x \in InstructionSet : x.accounts = <<>>},
                     j \in InstructionSet}

WireSigners == <<Keypair(4), Keypair(1)>>

InitWire ==
  /\ \E instructions \in WireInstructionLists :
       /\ transaction = [signatures |-> <<>>,
                         recentBlockhash |-> Addr(9),
                         instructions |-> instructions]
       /\ compiled_transaction =
            [message |-> Compile(instructions, Addr(9), WireSigners).message,
             signatures |-> <<>>]
  /\ serialized_message = <<>>
  /\ serialized_transaction = <<>>
  /\ last = [op |-> "compile", ok |-> TRUE, signers |-> WireSigners]
  /\ length = 0
  /\ encoded = <<>>
  /\ AddressIdle
  /\ CodecIdle
  /\ ResultIdle
  /\ LibraryIdle

\* compiled_transaction.message.serialize(serialized_message)
SerializeMessage ==
  \E r \in {MessageSerialize(compiled_transaction.message, serialized_message)} :
    /\ serialized_message' = r.buffer
    /\ last' = [op |-> "Message::serialize", ok |-> r.ok, signers |-> <<>>]
    /\ UNCHANGED <<transaction, compiled_transaction, serialized_transaction, lengthVars,
               addressVars, codecVars, resultVars, libraryVars>>

\* compiled_transaction.sign(serialized_message, signers)
sign(signers) ==
  \E r \in {TransactionSign(compiled_transaction.signatures, serialized_message, signers)} :
    /\ compiled_transaction' = [compiled_transaction EXCEPT !.signatures = r.signatures]
    /\ last' = [op |-> "sign", ok |-> r.ok, signers |-> signers]
    /\ UNCHANGED <<transaction, wireVars, lengthVars,
               addressVars, codecVars, resultVars, libraryVars>>

Sign == \E signers \in SignerLists : sign(signers)

\* serialized_transaction = compiled_transaction.serialize(serialized_message)
SerializeTransaction ==
  \E r \in {TransactionSerialize(compiled_transaction.signatures, serialized_message)} :
    /\ serialized_transaction' = IF r.ok THEN r.buffer ELSE serialized_transaction
    /\ last' = [op |-> "serialize", ok |-> r.ok, signers |-> <<>>]
    /\ UNCHANGED <<transaction, compiled_transaction, serialized_message, lengthVars,
               addressVars, codecVars, resultVars, libraryVars>>

NextWire == SerializeMessage \/ Sign \/ SerializeTransaction

SpecWire == InitWire /\ [][NextWire]_vars

(***************************************************************************)
(* The compact-length encoder on its own.                                  *)
(***************************************************************************)
InitLength ==
  /\ transaction = [signatures |-> <<>>,
                    recentBlockhash |-> Addr(9),
                    instructions |-> <<>>]
  /\ compiled_transaction = [message |-> NoMessage, signatures |-> <<>>]
  /\ serialized_message = <<>>
  /\ serialized_transaction = <<>>
  /\ last = NoCall
  /\ length \in 0..MaxLength
  /\ encoded = <<>>
  /\ AddressIdle
  /\ CodecIdle
  /\ ResultIdle
  /\ LibraryIdle

\* encoded = encode_length(length)
EncodeLengthCall ==
  /\ last.op = "none"
  /\ encoded' = EncodeLength(length)
  /\ last' = [op |-> "encode_length", ok |-> TRUE, signers |-> <<>>]
  /\ UNCHANGED <<transaction, compiled_transaction, wireVars, length,
               addressVars, codecVars, resultVars, libraryVars>>

NextLength == EncodeLengthCall

SpecLength == InitLength /\ [][NextLength]_vars

(***************************************************************************)
(* The address derivation: one call on each choice of seeds and program.   *)
(***************************************************************************)
InitAddress ==
  /\ TransactionIdle
  /\ last = NoCall
  /\ seeds \in SeedLists
  /\ programId \in Programs
  /\ derived = NoDerived
  /\ CodecIdle
  /\ ResultIdle
  /\ LibraryIdle

\* derived = PublicKey::create_program_address(seeds, programId)
CreateProgramAddressCall ==
  /\ last.op = "none"
  /\ \E r \in {CreateProgramAddress(seeds, programId)} :
       /\ derived' = [ok |-> r.ok, error |-> r.error, has_value |-> r.has_value,
                      value |-> r.value, nonce |-> 0, attempts |-> <<>>]
       /\ last' = [op |-> "create_program_address", ok |-> r.ok, signers |-> <<>>]
  /\ UNCHANGED <<transactionVars, seeds, programId, codecVars, resultVars, libraryVars>>

\* derived = PublicKey::find_program_address(seeds, programId)
FindProgramAddressCall ==
  /\ last.op = "none"
  /\ \E r \in {FindProgramAddress(seeds, programId)} :
       /\ derived' = [ok |-> r.ok, error |-> r.error, has_value |-> r.ok,
                      value |-> r.address, nonce |-> r.nonce,
                      attempts |-> r.attempts]
       /\ last' = [op |-> "find_program_address", ok |-> r.ok, signers |-> <<>>]
  /\ UNCHANGED <<transactionVars, seeds, programId, codecVars, resultVars, libraryVars>>

NextAddress == CreateProgramAddressCall \/ FindProgramAddressCall

SpecAddress == InitAddress /\ [][NextAddress]_vars

(***************************************************************************)
(* The base-58 text of a key, and the key built from that text.            *)
(***************************************************************************)
InitCodec ==
  /\ TransactionIdle
  /\ last = NoCall
  /\ AddressIdle
  /\ pubkey \in KeySamples
  /\ base58 = <<>>
  /\ parsed = NoKey
  /\ ResultIdle
  /\ LibraryIdle

\* base58 = pubkey.to_base58()
ToBase58Call ==
  /\ last.op = "none"
  /\ base58' = ToBase58(pubkey)
  /\ last' = [op |-> "to_base58", ok |-> TRUE, signers |-> <<>>]
  /\ UNCHANGED <<transactionVars, addressVars, pubkey, parsed, resultVars, libraryVars>>

\* parsed = PublicKey(base58); the bytes are whatever the memory held when
\* the decoder fails.
PublicKeyFromString ==
  /\ last.op = "to_base58"
  /\ \E r \in {FromBase58(base58)} :
       /\ parsed' \in (IF r.ok THEN {r.bytes} ELSE {r.bytes, NoKey, pubkey})
       /\ last' = [op |-> "PublicKey", ok |-> TRUE, signers |-> <<>>]
  /\ UNCHANGED <<transactionVars, addressVars, pubkey, base58, resultVars, libraryVars>>

NextCodec == ToBase58Call \/ PublicKeyFromString

SpecCodec == InitCodec /\ [][NextCodec]_vars

(***************************************************************************)
(* A response decoded into a Result<T>, and unwrap on the Result.          *)
(***************************************************************************)
InitResult ==
  /\ TransactionIdle
  /\ last = NoCall
  /\ AddressIdle
  /\ CodecIdle
  /\ response \in Responses
  /\ result = EmptyResult
  /\ unwrapped = NoUnwrap
  /\ LibraryIdle

\* result = response.get<Result<T>>(): from_json fills a default Result;
\* when it throws the caller gets no Result.
FromJsonCall ==
  /\ last.op = "none"
  /\ \E r \in {FromJson(response, EmptyResult)} :
       /\ result' = IF r.ok THEN r.r ELSE result
       /\ last' = [op |-> "from_json", ok |-> r.ok, signers |-> <<>>]
  /\ UNCHANGED <<transactionVars, addressVars, codecVars, response, unwrapped, libraryVars>>

\* unwrapped = result.unwrap(), on a default Result or on a decoded one.
UnwrapCall ==
  /\ last.op \in {"none", "from_json"}
  /\ last.ok
  /\ \E r \in {Unwrap(result)} :
       /\ unwrapped' = r
       /\ last' = [op |-> "unwrap", ok |-> r.ok, signers |-> <<>>]
  /\ UNCHANGED <<transactionVars, addressVars, codecVars, response, result, libraryVars>>

NextResult == FromJsonCall \/ UnwrapCall

SpecResult == InitResult /\ [][NextResult]_vars

(***************************************************************************)
(* SpecOrder: PublicKey::operator<, operator== and the account sort of     *)
(* compile applied to three keys.                                          *)
(***************************************************************************)
\* Keys differing in the first byte, keys with the same first byte differing
\* later, and keys differing in the last byte only; bytes of both halves of
\* the range of uint8_t.
OrderKeys ==
  {KeySample(z, b, f) : z \in {0, PUBLIC_KEY_LENGTH - 1},
                        b \in {1, UINT8_MOD - 1},
                        f \in {0, UINT8_MOD - 2}}
OperandLists == [1..3 -> OrderKeys]

InitOrder ==
  /\ operands \in OperandLists
  /\ comparison = NoComparison
  /\ last = NoCall
  /\ TransactionIdle
  /\ AddressIdle
  /\ CodecIdle
  /\ ResultIdle
  /\ KeypairIdle /\ Base64Idle /\ SendIdle /\ SodiumIdle

\* a < b and a == b for every pair of the operands.
CompareKeys ==
  /\ comparison' =
       [comparison EXCEPT
          !.less = [i \in 1..3 |-> [j \in 1..3 |-> KeyLess(operands[i], operands[j])]],
          !.equal = [i \in 1..3 |-> [j \in 1..3 |-> KeyEq(operands[i], operands[j])]]]
  /\ last' = [op |-> "compare", ok |-> TRUE, signers |-> <<>>]
  /\ UNCHANGED <<operands, transactionVars, addressVars, codecVars, resultVars,
                 keypairVars, base64Vars, sendVars, sodiumVars>>

\* The std::sort of compile over the operands as accounts of one class.
SortKeys ==
  \E isSigner \in BOOLEAN, isWritable \in BOOLEAN :
    LET metas == [i \in 1..3 |-> AccountMeta(operands[i], isSigner, isWritable)]
        sorted == SortMetas(metas)
    IN /\ comparison' = [comparison EXCEPT !.keys = [i \in 1..3 |-> sorted[i].pubkey]]
       /\ last' = [op |-> "sort", ok |-> TRUE, signers |-> <<>>]
       /\ UNCHANGED <<operands, transactionVars, addressVars, codecVars, resultVars,
                      keypairVars, base64Vars, sendVars, sodiumVars>>

NextOrder == CompareKeys \/ SortKeys

SpecOrder == InitOrder /\ [][NextOrder]_vars

(***************************************************************************)
(* libsodium's one-time setup.  sodium_init returns 0 the first time, 1    *)
(* when the library is initialized already, and -1 when it cannot be       *)
(* initialized in this process.                                            *)
(***************************************************************************)
SodiumInit(state) ==
  IF state.initialized THEN [rc |-> 1, state |-> state]
  ELSE IF state.available
       THEN [rc |-> 0, state |-> [state EXCEPT !.initialized = TRUE]]
       ELSE [rc |-> 0 - 1, state |-> state]

SodiumStates == {[available |-> a, initialized |-> FALSE] : a \in BOOLEAN}

(***************************************************************************)
(* Keypair.  A secret key of crypto_sign_SECRETKEYBYTES bytes is the pair  *)
(* of its two halves, the seed and the public key kept with it; a half,    *)
(* which is PUBLIC_KEY_LENGTH bytes, is abstracted to a number.            *)
(***************************************************************************)
crypto_sign_SECRETKEYBYTES == 64

Halves == 0..MaxHalf
SecretKeys == Halves \X Halves
\* PublicKey(): every byte 0.
ZeroHalf == 0

\* The public key of a seed: a stand-in for the library's derivation.
PublicOfSeed(seed) == (2 * seed + 1) % (MaxHalf + 1)

\* crypto_sign_ed25519_sk_to_pk: the second half of the secret key; the
\* call returns 0 always.
SkToPk(sk) == [rc |-> 0, pk |-> sk[2]]

\* crypto_sign_seed_keypair.
SeedKeypair(seed) ==
  [secretKey |-> <<seed, PublicOfSeed(seed)>>, publicKey |-> PublicOfSeed(seed)]

\* What a construction returns or throws.
Thrown(op, given, skipValidation, error) ==
  [op |-> op, ok |-> FALSE, error |-> error, given |-> given,
   skipValidation |-> skipValidation, value |-> None]
Built(op, given, skipValidation, secretKey, publicKey) ==
  [op |-> op, ok |-> TRUE, error |-> "", given |-> given,
   skipValidation |-> skipValidation,
   value |-> Some([secretKey |-> secretKey, publicKey |-> publicKey])]

\* from_file reading any file of at least the size of a secret key.
FromFile_AtLeast(f) ==
  IF f.openable
  THEN IF f.size >= crypto_sign_SECRETKEYBYTES
       THEN Built("from_file", f.bytes, FALSE, f.bytes, SkToPk(f.bytes).pk)
       ELSE Thrown("from_file", f.bytes, FALSE, "invalid secret key file")
  ELSE Thrown("from_file", f.bytes, FALSE, "could not open secret key file")

\* Keypair::from_file, once Keypair() has returned.
FromFile(f) ==
  IF f.openable
  THEN IF f.size = crypto_sign_SECRETKEYBYTES
       THEN Built("from_file", f.bytes, FALSE, f.bytes, SkToPk(f.bytes).pk)
       ELSE Thrown("from_file", f.bytes, FALSE, "invalid secret key file")
  ELSE Thrown("from_file", f.bytes, FALSE, "could not open secret key file")

\* Files: one that cannot be opened; empty, one byte short, exact and one
\* byte long files, the last two holding a secret key in their first bytes.
FileSizes == {0, crypto_sign_SECRETKEYBYTES - 1, crypto_sign_SECRETKEYBYTES,
              crypto_sign_SECRETKEYBYTES + 1}
Files ==
  {NoFile}
    \cup {[openable |-> TRUE, size |-> s, bytes |-> <<>>] :
            s \in {s \in FileSizes : s < crypto_sign_SECRETKEYBYTES}}
    \cup {[openable |-> TRUE, size |-> s, bytes |-> k] :
            s \in {s \in FileSizes : s >= crypto_sign_SECRETKEYBYTES},
            k \in SecretKeys}

(***************************************************************************)
(* SpecKeypair: the four ways to a Keypair, called in any order.           *)
(***************************************************************************)
InitKeypair ==
  /\ file \in Files
  /\ keypair = NoKeypair
  /\ sodium \in SodiumStates
  /\ last = NoCall
  /\ TransactionIdle
  /\ AddressIdle
  /\ CodecIdle
  /\ ResultIdle
  /\ OrderIdle /\ Base64Idle /\ SendIdle

\* One construction: sodium_init first, "Failed to initialize libsodium"
\* thrown when it returns -1, else the outcome built.
Construct(op, given, skipValidation, built) ==
  \E init \in {SodiumInit(sodium)} :
    /\ sodium' = init.state
    /\ keypair' = IF init.rc = 0 - 1
                  THEN Thrown(op, given, skipValidation, "Failed to initialize libsodium")
                  ELSE built
    /\ last' = [op |-> op, ok |-> keypair'.ok, signers |-> <<>>]
    /\ UNCHANGED <<file, transactionVars, addressVars, codecVars, resultVars,
                   orderVars, base64Vars, sendVars>>

\* Keypair(secretKey, skipValidation): the parameter, PUBLIC_KEY_LENGTH
\* bytes, hides the member, which nothing writes: the member holds whatever
\* the storage held.  The public key is zeroed by its constructor; without
\* skipValidation it is then overwritten with the bytes sk_to_pk reads
\* behind the end of the parameter, and the call returns 0.
KeypairFromSecret ==
  \E secretKey \in Halves, skipValidation \in BOOLEAN,
     member \in SecretKeys, behind \in Halves :
    Construct("Keypair", <<secretKey>>, skipValidation,
              Built("Keypair", <<secretKey>>, skipValidation, member,
                    IF skipValidation THEN ZeroHalf
                    ELSE SkToPk(<<secretKey, behind>>).pk))

KeypairFromFile == Construct("from_file", file.bytes, FALSE, FromFile(file))

KeypairFromSeed ==
  \E seed \in Halves :
    Construct("from_seed", <<seed>>, FALSE,
              Built("from_seed", <<seed>>, FALSE,
                    SeedKeypair(seed).secretKey, SeedKeypair(seed).publicKey))

\* crypto_sign_keypair: the keypair of a seed drawn at random.
KeypairGenerate ==
  \E seed \in Halves :
    Construct("generate", <<>>, FALSE,
              Built("generate", <<>>, FALSE,
                    SeedKeypair(seed).secretKey, SeedKeypair(seed).publicKey))

NextKeypair ==
  KeypairFromSecret \/ KeypairFromFile \/ KeypairFromSeed \/ KeypairGenerate

SpecKeypair == InitKeypair /\ [][NextKeypair]_vars

(***************************************************************************)
(* base64 (many.hpp): the standard alphabet, three bytes to four           *)
(* characters, '=' padding.  A text is a sequence of one-character         *)
(* strings.                                                                *)
(***************************************************************************)
Base64Alphabet ==
  <<"A", "B", "C", "D", "E", "F", "G", "H", "I", "J", "K", "L", "M",
    "N", "O", "P", "Q", "R", "S", "T", "U", "V", "W", "X", "Y", "Z",
    "a", "b", "c", "d", "e", "f", "g", "h", "i", "j", "k", "l", "m",
    "n", "o", "p", "q", "r", "s", "t", "u", "v", "w", "x", "y", "z",
    "0", "1", "2", "3", "4", "5", "6", "7", "8", "9", "+", "/">>
Base64Pad == "="

\* The character of a 6-bit value and the 6-bit value of a character.
Base64Char(sextet) == Base64Alphabet[sextet + 1]
Base64Value(char) ==
  IF char = Base64Pad THEN 0
  ELSE (CHOOSE i \in 1..Len(Base64Alphabet) : Base64Alphabet[i] = char) - 1

\* The byte at position i, 0 behind the end.
ByteAt(bytes, i) == IF i <= Len(bytes) THEN bytes[i] ELSE 0

\* The four characters of the group of three bytes starting at position i:
\* a character that holds no bit of a byte is the padding.
Base64Group(bytes, i) ==
  LET n == ByteAt(bytes, i) * 65536 + ByteAt(bytes, i + 1) * 256 + ByteAt(bytes, i + 2)
  IN <<Base64Char(n \div 262144),
       Base64Char((n \div 4096) % 64),
       IF i + 1 <= Len(bytes) THEN Base64Char((n \div 64) % 64) ELSE Base64Pad,
       IF i + 2 <= Len(bytes) THEN Base64Char(n % 64) ELSE Base64Pad>>

\* encode leaving the last group without its padding.
Base64Encode_NoPadding(bytes) ==
  LET groups == (Len(bytes) + 2) \div 3
      padded == [k \in 1..(4 * groups) |->
                   Base64Group(bytes, 3 * ((k - 1) \div 4) + 1)[((k - 1) % 4) + 1]]
  IN SelectSeq(padded, LAMBDA c : c # Base64Pad)

\* base64::encode.
Base64Encode(bytes) ==
  LET groups == (Len(bytes) + 2) \div 3
  IN [k \in 1..(4 * groups) |->
        Base64Group(bytes, 3 * ((k - 1) \div 4) + 1)[((k - 1) % 4) + 1]]

\* The number of padding characters at the end of a text.
Base64Padding(chars) ==
  IF Len(chars) >= 2 /\ chars[Len(chars) - 1] = Base64Pad THEN 2
  ELSE IF Len(chars) >= 1 /\ chars[Len(chars)] = Base64Pad THEN 1
  ELSE 0

\* base64::decode: three bytes of every four characters, less one byte for
\* each padding character.
Base64Decode(chars) ==
  LET groups == Len(chars) \div 4
      size == 3 * groups - Base64Padding(chars)
      Number(g) == Base64Value(chars[4 * g + 1]) * 262144
                     + Base64Value(chars[4 * g + 2]) * 4096
                     + Base64Value(chars[4 * g + 3]) * 64
                     + Base64Value(chars[4 * g + 4])
  IN [k \in 1..size |->
        LET n == Number((k - 1) \div 3)
        IN IF (k - 1) % 3 = 0 THEN n \div 65536
           ELSE IF (k - 1) % 3 = 1 THEN (n \div 256) % UINT8_MOD
           ELSE n % UINT8_MOD]

\* Byte strings: "hello", and every string of up to MaxData bytes of the
\* least byte, a letter and the greatest byte.
Hello == <<104, 101, 108, 108, 111>>
Base64Bytes == {0, 77, UINT8_MOD - 1}
DataSet == {Hello} \cup UNION {[1..n -> Base64Bytes] : n \in 0..MaxData}

(***************************************************************************)
(* SpecBase64: a byte string is encoded and the text decoded.              *)
(***************************************************************************)
InitBase64 ==
  /\ data \in DataSet
  /\ text = <<>>
  /\ decoded = <<>>
  /\ last = NoCall
  /\ TransactionIdle
  /\ AddressIdle
  /\ CodecIdle
  /\ ResultIdle
  /\ OrderIdle /\ KeypairIdle /\ SendIdle /\ SodiumIdle

Base64EncodeCall ==
  /\ text' = Base64Encode(data)
  /\ decoded' = <<>>
  /\ last' = [op |-> "encode", ok |-> TRUE, signers |-> <<>>]
  /\ UNCHANGED <<data, transactionVars, addressVars, codecVars, resultVars,
                 orderVars, keypairVars, sendVars, sodiumVars>>

Base64DecodeCall ==
  /\ last.op = "encode"
  /\ decoded' = Base64Decode(text)
  /\ last' = [op |-> "decode", ok |-> TRUE, signers |-> <<>>]
  /\ UNCHANGED <<data, text, transactionVars, addressVars, codecVars, resultVars,
                 orderVars, keypairVars, sendVars, sodiumVars>>

NextBase64 == Base64EncodeCall \/ Base64DecodeCall

SpecBase64 == InitBase64 /\ [][NextBase64]_vars

(***************************************************************************)
(* Connection::sign_and_send_transaction and                               *)
(* token::create_associated_token_account.  The node is the response it    *)
(* gives to each method; a step is recorded in the order the code reaches  *)
(* it, with its outcome and, for a request, what it carries.  The number a *)
(* response carries stands for the text of the blockhash Addr(number), or  *)
(* for the transaction identifier.                                         *)
(***************************************************************************)
CallStep(name, ok, params) == [step |-> name, ok |-> ok, params |-> params]

\* get_latest_blockhash(): the response of the node decoded into a
\* Result<Blockhash>.
GetLatestBlockhash(nd) == FromJson(nd.getLatestBlockhash, EmptyResult)

\* recentBlockhash = blockhash: a PublicKey built from the text.
BlockhashKey(number) == FromBase58(ToBase58(Addr(number))).bytes

\* What the handler leaves behind: [ok, transaction, compiled_transaction,
\* serialized_message, serialized_transaction, calls, result]; ok is FALSE
\* when it threw.
Outcome(ok, tx, compiled, message_bytes, envelope, steps, r) ==
  [ok |-> ok, transaction |-> tx, compiled_transaction |-> compiled,
   serialized_message |-> message_bytes, serialized_transaction |-> envelope,
   calls |-> steps, result |-> r]

NoCompiled == [message |-> NoMessage, signatures |-> <<>>]

\* The return statement: the one request for sendTransaction, which
\* carries the base64 text of the envelope; sent is the response decoded
\* into the Result<std::string> returned.
AfterSerialize(tx, compiled, message_bytes, envelope, steps, sent) ==
  Outcome(sent.ok, tx, compiled, message_bytes, envelope,
          Append(steps, CallStep("sendTransaction", sent.ok, Base64Encode(envelope))),
          sent.r)

\* serialized_transaction = compiled_transaction.serialize(serialized_message)
AfterSign(tx, nd, compiled, message_bytes, steps, envelope) ==
  IF ~envelope.ok
  THEN Outcome(FALSE, tx, compiled, message_bytes, <<>>,
               Append(steps, CallStep("serialize", FALSE, <<>>)), EmptyResult)
  ELSE AfterSerialize(tx, compiled, message_bytes, envelope.buffer,
                      Append(steps, CallStep("serialize", TRUE, <<>>)),
                      FromJson(nd.sendTransaction, EmptyResult))

\* compiled_transaction.sign(serialized_message, signers)
AfterMessageSerialize(tx, nd, compiled, message_bytes, steps, signed) ==
  IF ~signed.ok
  THEN Outcome(FALSE, tx, compiled, message_bytes, <<>>,
               Append(steps, CallStep("sign", FALSE, <<>>)), EmptyResult)
  ELSE AfterSign(tx, nd, [compiled EXCEPT !.signatures = signed.signatures],
                 message_bytes, Append(steps, CallStep("sign", TRUE, <<>>)),
                 TransactionSerialize(signed.signatures, message_bytes))

\* compiled_message.serialize(serialized_message)
AfterCompile(tx, signers, nd, compiled, steps, message_bytes) ==
  IF ~message_bytes.ok
  THEN Outcome(FALSE, tx, compiled, <<>>, <<>>,
               Append(steps, CallStep("Message::serialize", FALSE, <<>>)), EmptyResult)
  ELSE AfterMessageSerialize(tx, nd, compiled, message_bytes.buffer,
                             Append(steps, CallStep("Message::serialize", TRUE, <<>>)),
                             TransactionSign(<<>>, message_bytes.buffer, signers))

\* compiled_transaction = { .message = compiled_message }
AfterBlockhash(tx, signers, nd, steps, compiled_message) ==
  IF ~compiled_message.ok
  THEN Outcome(FALSE, tx, NoCompiled, <<>>, <<>>,
               Append(steps, CallStep("compile", FALSE, <<>>)), EmptyResult)
  ELSE AfterCompile(tx, signers, nd,
                    [message |-> compiled_message.message, signatures |-> <<>>],
                    Append(steps, CallStep("compile", TRUE, <<>>)),
                    MessageSerialize(compiled_message.message, <<>>))

\* The steps from compile on, for a transaction that holds its blockhash.
SubmitTransaction(tx, signers, nd, steps) ==
  AfterBlockhash(tx, signers, nd, steps,
                 Compile(tx.instructions, tx.recentBlockhash, signers))

\* recentBlockhash = get_latest_blockhash().unwrap().blockhash: fetchedOk
\* is FALSE when decoding the response threw, blockhash is what unwrap
\* returned or threw.
StoreBlockhash(tx, signers, nd, fetchedOk, blockhash) ==
  IF ~fetchedOk \/ ~blockhash.ok
  THEN Outcome(FALSE, tx, NoCompiled, <<>>, <<>>,
               <<CallStep("getLatestBlockhash", FALSE, <<>>)>>, EmptyResult)
  ELSE SubmitTransaction([tx EXCEPT !.recentBlockhash = BlockhashKey(blockhash.value)],
                         signers, nd, <<CallStep("getLatestBlockhash", TRUE, <<>>)>>)

\* The blockhash asked for when the other steps are done.
BlockhashLast(submitted, fetched) ==
  IF ~submitted.ok THEN submitted
  ELSE [submitted EXCEPT
          !.calls = Append(@, CallStep("getLatestBlockhash",
                                       fetched.ok /\ Unwrap(fetched.r).ok, <<>>))]

\* sign_and_send_transaction compiling before it asks for the blockhash.
SignAndSendTransaction_CompileFirst(tx, signers, nd) ==
  BlockhashLast(SubmitTransaction(tx, signers, nd, <<>>), GetLatestBlockhash(nd))

\* sign_and_send_transaction(transaction, signers).
SignAndSendTransaction(tx, signers, nd) ==
  StoreBlockhash(tx, signers, nd, GetLatestBlockhash(nd).ok,
                 Unwrap(GetLatestBlockhash(nd).r))

\* The programs the token functions name by default.
SYSTEM_PROGRAM == Addr(0)
TOKEN_PROGRAM_ID == Addr(6)
ASSOCIATED_TOKEN_PROGRAM_ID == Addr(7)

\* get_associated_token_address(mint, owner, false): [ok, error, address].
GetAssociatedTokenAddress(mint, owner) ==
  IF ~IsOnCurve(owner)
  THEN [ok |-> FALSE, error |-> "Token owner is off curve.", address |-> NoKey]
  ELSE LET pda == FindProgramAddress(<<owner, TOKEN_PROGRAM_ID, mint>>,
                                     ASSOCIATED_TOKEN_PROGRAM_ID)
       IN [ok |-> pda.ok, error |-> pda.error, address |-> pda.address]

\* create_associated_token_account_transaction
CreateAssociatedTokenAccountTransaction(payer, associatedToken, owner, mint) ==
  [signatures |-> <<>>,
   recentBlockhash |-> Addr(0),
   instructions |->
     <<[programId |-> ASSOCIATED_TOKEN_PROGRAM_ID,
        accounts |-> <<AccountMeta(payer, TRUE, TRUE),
                       AccountMeta(associatedToken, FALSE, TRUE),
                       AccountMeta(owner, FALSE, FALSE),
                       AccountMeta(mint, FALSE, FALSE),
                       AccountMeta(SYSTEM_PROGRAM, FALSE, FALSE),
                       AccountMeta(TOKEN_PROGRAM_ID, FALSE, FALSE)>>,
        data |-> <<>>]>>]

\* std::string txid = ...unwrap(); return Result<PublicKey>(associatedToken)
ReturnTokenAccount(address, sent, txid) ==
  IF ~txid.ok
  THEN [sent EXCEPT !.ok = FALSE,
                    !.calls = Append(@, CallStep("unwrap", FALSE, <<>>)),
                    !.result = EmptyResult]
  ELSE [sent EXCEPT !.calls = Append(@, CallStep("unwrap", TRUE, <<>>)),
                    !.result = [EmptyResult EXCEPT !.result = Some(address)]]

UnwrapSubmission(address, sent) ==
  IF ~sent.ok THEN sent ELSE ReturnTokenAccount(address, sent, Unwrap(sent.result))

\* create_associated_token_account(connection, payer, mint, owner), with
\* associatedToken what get_associated_token_address(mint, owner) returned
\* or threw: the transaction is sent and its Result unwrapped; the Result
\* returned carries the address of the account.
CreateAssociatedTokenAccount(tx, payer, mint, owner, nd, associatedToken) ==
  IF ~associatedToken.ok
  THEN Outcome(FALSE, tx, NoCompiled, <<>>, <<>>, <<>>, EmptyResult)
  ELSE UnwrapSubmission(
         associatedToken.address,
         SignAndSendTransaction(
           CreateAssociatedTokenAccountTransaction(
             payer.publicKey, associatedToken.address, owner, mint),
           <<payer>>, nd))

\* Answers of the node: a value, an error object, a null result.
ValueResponse(v) == [keys |-> {"result"}, result |-> v, error |-> JsonNull]
ErrorResponse(e) == [keys |-> {"error"}, result |-> JsonNull, error |-> e]
BlockhashResponses ==
  {ValueResponse(JsonObject({"context", "value"}, JsonContext, JsonNumber(MaxNumber))),
   ValueResponse(JsonNull)}
    \cup {ErrorResponse(e) : e \in JsonErrors}
SendResponses ==
  {ValueResponse(JsonNumber(0))} \cup {ErrorResponse(e) : e \in JsonErrors}
Nodes ==
  {[getLatestBlockhash |-> b, sendTransaction |-> s] :
     b \in BlockhashResponses, s \in SendResponses}

\* Transactions handed to sign_and_send_transaction: without instructions,
\* with one and two small instructions, and with 255 read-only signer
\* accounts, whose compiled header requires no signature.
SendInstructionLists ==
  {<<>>,
   <<[programId |-> Addr(3), accounts |-> <<AccountMeta(Addr(1), TRUE, TRUE)>>,
      data |-> <<7, 8>>]>>,
   <<[programId |-> Addr(2), accounts |-> <<>>, data |-> <<>>],
     [programId |-> Addr(3), accounts |-> <<AccountMeta(Addr(1), TRUE, TRUE)>>,
      data |-> <<7, 8>>]>>,
   <<WideInstruction(UINT8_MOD - 1, TRUE)>>}

\* Owners of a token account: on the curve and off it.
Owners == {KeySample(0, 1, 0), Addr(5)}

(***************************************************************************)
(* SpecSend: a Connection and a Transaction; the transaction is sent and   *)
(* token accounts are created, in any order.                               *)
(***************************************************************************)
InitSend ==
  /\ \E instructions \in SendInstructionLists :
       transaction = [signatures |-> <<>>,
                      recentBlockhash |-> Addr(9),
                      instructions |-> instructions]
  /\ compiled_transaction = NoCompiled
  /\ serialized_message = <<>>
  /\ serialized_transaction = <<>>
  /\ last = NoCall
  /\ length = 0
  /\ encoded = <<>>
  /\ node \in Nodes
  /\ calls = <<>>
  /\ sodium = SodiumInit(NoSodium).state
  /\ AddressIdle
  /\ CodecIdle
  /\ ResultIdle
  /\ OrderIdle /\ KeypairIdle /\ Base64Idle

\* The outcome of a handler stored.
Handled(op, signers, outcome) ==
  /\ transaction' = outcome.transaction
  /\ compiled_transaction' = outcome.compiled_transaction
  /\ serialized_message' = outcome.serialized_message
  /\ serialized_transaction' = outcome.serialized_transaction
  /\ calls' = outcome.calls
  /\ result' = outcome.result
  /\ last' = [op |-> op, ok |-> outcome.ok, signers |-> signers]
  /\ UNCHANGED <<lengthVars, addressVars, codecVars, response, unwrapped, node,
                 orderVars, keypairVars, base64Vars, sodiumVars>>

SignAndSendCall ==
  \E signers \in SignerLists :
    \E outcome \in {SignAndSendTransaction(transaction, signers, node)} :
      Handled("sign_and_send_transaction", signers, outcome)

CreateAssociatedTokenAccountCall ==
  \E owner \in Owners :
    \E associatedToken \in {GetAssociatedTokenAddress(Addr(8), owner)} :
      \E outcome \in {CreateAssociatedTokenAccount(transaction, Keypair(1), Addr(8),
                                                   owner, node, associatedToken)} :
        Handled("create_associated_token_account", <<Keypair(1)>>, outcome)

NextSend == SignAndSendCall \/ CreateAssociatedTokenAccountCall

SpecSend == InitSend /\ [][NextSend]_vars

(***************************************************************************)
(* SpecSodium: a process that constructs Keypair and Connection objects    *)
(* and calls the operations that use a curve or signing primitive, in any  *)
(* order, up to MaxCalls calls.  calls is the sequence of the calls made.  *)
(***************************************************************************)
InitSodium ==
  /\ sodium \in SodiumStates
  /\ calls = <<>>
  /\ node = NoNode
  /\ keypair = NoKeypair
  /\ file = NoFile
  /\ last = NoCall
  /\ seeds = <<Seed(1, 1)>>
  /\ programId \in Programs
  /\ derived = NoDerived
  /\ pubkey \in {Addr(5), KeySample(0, 1, 0)}
  /\ base58 = <<>>
  /\ parsed = NoKey
  /\ TransactionIdle
  /\ ResultIdle
  /\ OrderIdle /\ Base64Idle

\* A Keypair has been constructed.
HasKeypair == \E i \in 1..Len(calls) : calls[i].step \in {"Keypair", "from_seed"} /\ calls[i].ok

\* One call recorded.
Called(op, ok, returned) ==
  /\ Len(calls) < MaxCalls
  /\ calls' = Append(calls, CallStep(op, ok, returned))
  /\ last' = [op |-> op, ok |-> ok, signers |-> <<>>]
  /\ UNCHANGED <<transactionVars, seeds, programId, codecVars, resultVars,
                 orderVars, file, base64Vars, node>>

\* Keypair()
ConstructKeypair ==
  \E init \in {SodiumInit(sodium)} :
    /\ sodium' = init.state
    /\ keypair' = IF init.rc = 0 - 1
                  THEN Thrown("Keypair", <<>>, FALSE, "Failed to initialize libsodium")
                  ELSE Built("Keypair", <<>>, FALSE, <<ZeroHalf, ZeroHalf>>, ZeroHalf)
    /\ UNCHANGED derived
    /\ Called("Keypair", init.rc # 0 - 1, <<init.rc>>)

\* Keypair::from_seed(seed): Keypair(), then the key derivation.
ConstructFromSeed ==
  \E init \in {SodiumInit(sodium)}, seed \in {MaxHalf} :
    /\ sodium' = init.state
    /\ keypair' = IF init.rc = 0 - 1
                  THEN Thrown("from_seed", <<seed>>, FALSE, "Failed to initialize libsodium")
                  ELSE Built("from_seed", <<seed>>, FALSE,
                             SeedKeypair(seed).secretKey, SeedKeypair(seed).publicKey)
    /\ UNCHANGED derived
    /\ Called("from_seed", init.rc # 0 - 1, <<init.rc>>)

\* Connection(endpoint, commitment)
ConstructConnection ==
  \E init \in {SodiumInit(sodium)} :
    /\ sodium' = init.state
    /\ UNCHANGED <<keypair, derived>>
    /\ Called("Connection", init.rc # 0 - 1, <<init.rc>>)

\* pubkey.is_on_curve()
IsOnCurveCall ==
  /\ UNCHANGED <<sodium, keypair, derived>>
  /\ Called("is_on_curve", TRUE, <<IsOnCurve(pubkey)>>)

\* PublicKey::create_program_address(seeds, programId)
CreateProgramAddressUse ==
  \E r \in {CreateProgramAddress(seeds, programId)} :
    /\ derived' = [ok |-> r.ok, error |-> r.error, has_value |-> r.has_value,
                   value |-> r.value, nonce |-> 0, attempts |-> <<>>]
    /\ UNCHANGED <<sodium, keypair>>
    /\ Called("create_program_address", r.ok, <<>>)

\* PublicKey::find_program_address(seeds, programId)
FindProgramAddressUse ==
  \E r \in {FindProgramAddress(seeds, programId)} :
    /\ derived' = [ok |-> r.ok, error |-> r.error, has_value |-> r.ok,
                   value |-> r.address, nonce |-> r.nonce, attempts |-> r.attempts]
    /\ UNCHANGED <<sodium, keypair>>
    /\ Called("find_program_address", r.ok, <<>>)

\* keypair.sign(message), of a Keypair that was constructed.
SignUse ==
  /\ HasKeypair
  /\ UNCHANGED <<sodium, keypair, derived>>
  /\ Called("sign", TRUE, KeypairSign(Keypair(0), <<1, 2, 3>>))

NextSodium ==
  \/ ConstructKeypair
  \/ ConstructFromSeed
  \/ ConstructConnection
  \/ IsOnCurveCall
  \/ CreateProgramAddressUse
  \/ FindProgramAddressUse
  \/ SignUse

SpecSodium == InitSodium /\ [][NextSodium]_vars

(***************************************************************************)
(* Claims about compile, checked under Spec.                               *)
(***************************************************************************)
\* The state right after a successful compile(last.signers) of transaction.
Compiled == last.op = "compile" /\ last.ok

\* C1: after every successful compile(signers), accountKeys[0] is
\* signers[0]'s address and that entry is counted as a writable signer:
\* numRequiredSignatures >= 1 and numReadonlySignedAccounts is less than
\* numRequiredSignatures.
C1_FeePayerIsFirstWritableSigner ==
  Compiled =>
    LET message == compiled_transaction.message IN
    /\ Len(message.accountKeys) >= 1
    /\ message.accountKeys[1] = last.signers[1].publicKey
    /\ message.header.numRequiredSignatures >= 1
    /\ message.header.numReadonlySignedAccounts < message.header.numRequiredSignatures

\* C2: after every successful compile, the compiled instructions are the
\* instructions position by position: the same payload, and every account
\* index and the program index lie inside accountKeys and name the address
\* they were compiled from.
C2_IndicesResolve ==
  Compiled =>
    LET message == compiled_transaction.message
        instructions == transaction.instructions
        keys == message.accountKeys
    IN /\ Len(message.instructions) = Len(instructions)
       /\ \A i \in 1..Len(instructions) :
            LET c == message.instructions[i]
                instruction == instructions[i]
            IN /\ c.data = instruction.data
               /\ Len(c.accounts) = Len(instruction.accounts)
               /\ \A j \in 1..Len(c.accounts) :
                    /\ c.accounts[j] < Len(keys)
                    /\ keys[c.accounts[j] + 1] = instruction.accounts[j].pubkey
               /\ c.programIdIndex < Len(keys)
               /\ keys[c.programIdIndex + 1] = instruction.programId

\* C3: after every successful compile, numRequiredSignatures is the number
\* of account entries flagged signer once the fee payer is promoted,
\* numReadonlySignedAccounts the number of those that are not writable and
\* numReadonlyUnsignedAccounts the number of non-signer entries that are not
\* writable, whatever the number of accounts.
C3_HeaderCounts ==
  Compiled =>
    LET header == compiled_transaction.message.header
        metas == PromotedMetas(transaction.instructions, last.signers)
        entries == 1..Len(metas)
    IN /\ header.numRequiredSignatures =
            Cardinality({i \in entries : metas[i].isSigner})
       /\ header.numReadonlySignedAccounts =
            Cardinality({i \in entries : metas[i].isSigner /\ ~metas[i].isWritable})
       /\ header.numReadonlyUnsignedAccounts =
            Cardinality({i \in entries : ~metas[i].isSigner /\ ~metas[i].isWritable})

\* C4: after every successful compile, no address occurs twice in
\* accountKeys, also when a program address is referenced as an account or
\* is the fee payer's address.
C4_NoDuplicateKeys ==
  Compiled =>
    LET keys == compiled_transaction.message.accountKeys
    IN Cardinality({keys[i] : i \in 1..Len(keys)}) = Len(keys)

\* C5: compile fails and produces no compiled message when the transaction
\* has no instructions or the signer list is empty, and leaves the
\* transaction (instructions, blockhash, signatures) as it was.
C5_CompileRejectsEmpty ==
  [][(last'.op = "compile"
        /\ (transaction.instructions = <<>> \/ last'.signers = <<>>))
       => (/\ ~last'.ok
           /\ compiled_transaction' = compiled_transaction
           /\ transaction' = transaction)]_vars

\* A compile with no signers of a transaction that has instructions, and it
\* failed.
C5_Witness ==
  /\ last.op = "compile"
  /\ ~last.ok
  /\ last.signers = <<>>
  /\ transaction.instructions # <<>>

(***************************************************************************)
(* Claims about the wire, checked under SpecWire and SpecLength.           *)
(***************************************************************************)
\* Bytes from..to of a buffer (from > to: none).
Bytes(buffer, from, to) == SubSeq(buffer, from, to)

\* The number of bytes one compiled instruction takes on the wire.
InstructionSize(c) ==
  1 + Len(EncodeLength(Len(c.accounts))) + Len(c.accounts)
    + Len(EncodeLength(Len(c.data))) + Len(c.data)

\* The number of bytes the first n compiled instructions take.
RECURSIVE InstructionsSize(_, _)
InstructionsSize(instructions, n) ==
  IF n = 0 THEN 0
  ELSE InstructionsSize(instructions, n - 1) + InstructionSize(instructions[n])

\* C6: a successful Message::serialize into an empty buffer leaves in it
\* exactly: the 3 header counts, compact-length(|accountKeys|), the 32 bytes
\* of each account key in order, the 32 blockhash bytes,
\* compact-length(|instructions|), and per instruction in order the program
\* index, compact-length(|accounts|), one byte per account index,
\* compact-length(|data|) and the data; nothing else.
C6_MessageLayout ==
  (last.op = "Message::serialize" /\ last.ok) =>
    LET message == compiled_transaction.message
        b == serialized_message
        keys == message.accountKeys
        keyCount == EncodeLength(Len(keys))
        keysAt == 3 + Len(keyCount)
        hashAt == keysAt + PUBLIC_KEY_LENGTH * Len(keys)
        countAt == hashAt + PUBLIC_KEY_LENGTH
        instructionCount == EncodeLength(Len(message.instructions))
        firstAt == countAt + Len(instructionCount)
    IN /\ Len(b) = firstAt + InstructionsSize(message.instructions,
                                              Len(message.instructions))
       /\ b[1] = message.header.numRequiredSignatures
       /\ b[2] = message.header.numReadonlySignedAccounts
       /\ b[3] = message.header.numReadonlyUnsignedAccounts
       /\ Bytes(b, 4, keysAt) = keyCount
       /\ \A k \in 1..Len(keys) :
            Bytes(b, keysAt + PUBLIC_KEY_LENGTH * (k - 1) + 1,
                     keysAt + PUBLIC_KEY_LENGTH * k) = keys[k]
       /\ Bytes(b, hashAt + 1, countAt) = message.recentBlockhash
       /\ Bytes(b, countAt + 1, firstAt) = instructionCount
       /\ \A i \in 1..Len(message.instructions) :
            LET c == message.instructions[i]
                at == firstAt + InstructionsSize(message.instructions, i - 1)
                accountCount == EncodeLength(Len(c.accounts))
                accountsAt == at + 1 + Len(accountCount)
                dataLength == EncodeLength(Len(c.data))
                dataAt == accountsAt + Len(c.accounts) + Len(dataLength)
            IN /\ b[at + 1] = c.programIdIndex
               /\ Bytes(b, at + 2, accountsAt) = accountCount
               /\ Bytes(b, accountsAt + 1, accountsAt + Len(c.accounts)) = c.accounts
               /\ Bytes(b, accountsAt + Len(c.accounts) + 1, dataAt) = dataLength
               /\ Bytes(b, dataAt + 1, dataAt + Len(c.data)) = c.data

\* A serialized message of two instructions, one of them with an account
\* and a payload.
C6_Witness ==
  /\ last.op = "Message::serialize"
  /\ last.ok
  /\ Len(compiled_transaction.message.instructions) = 2
  /\ \E i \in 1..2 :
       /\ compiled_transaction.message.instructions[i].accounts # <<>>
       /\ compiled_transaction.message.instructions[i].data # <<>>

\* The number a compact length stands for: 7 bits a byte, least
\* significant group first.
RECURSIVE CompactValue(_)
CompactValue(bytes) ==
  IF bytes = <<>> THEN 0
  ELSE (Head(bytes) % 128) + 128 * CompactValue(Tail(bytes))

\* C7: the compact length is the minimal little-endian base-128
\* continuation encoding: 0 -> 00, 127 -> 7f, 128 -> 80 01, 16383 -> ff 7f,
\* 16384 -> 80 80 01; every byte but the last has its high bit set, the
\* last has it clear.
C7_CompactLength ==
  (last.op = "encode_length") =>
    /\ (length = 0 => encoded = <<0>>)
    /\ (length = 127 => encoded = <<127>>)
    /\ (length = 128 => encoded = <<128, 1>>)
    /\ (length = 16383 => encoded = <<255, 127>>)
    /\ (length = 16384 => encoded = <<128, 128, 1>>)
    /\ Len(encoded) >= 1
    /\ \A i \in 1..Len(encoded) :
         /\ encoded[i] \in 0..255
         /\ (encoded[i] >= 128) <=> (i < Len(encoded))
    /\ CompactValue(encoded) = length
    /\ (Len(encoded) > 1 => encoded[Len(encoded)] # 0)

\* The first count that takes three bytes has been encoded.
C7_Witness == last.op = "encode_length" /\ length = 16384 /\ Len(encoded) = 3

\* C8: Message::serialize called with a buffer that is not empty fails and
\* leaves the buffer as it was.
C8_SerializeTwiceFails ==
  [][(last'.op = "Message::serialize" /\ serialized_message # <<>>)
       => (~last'.ok /\ serialized_message' = serialized_message)]_vars

\* Message::serialize has been called on a buffer that held the message.
C8_Witness ==
  /\ last.op = "Message::serialize"
  /\ ~last.ok
  /\ serialized_message # <<>>

\* The envelope of a list of signatures and the message bytes.
IsEnvelope(b, signatures, message_bytes) ==
  LET count == EncodeLength(Len(signatures))
      messageAt == Len(count) + SIGNATURE_LENGTH * Len(signatures)
  IN /\ Len(b) = messageAt + Len(message_bytes)
     /\ Bytes(b, 1, Len(count)) = count
     /\ \A i \in 1..Len(signatures) :
          Bytes(b, Len(count) + SIGNATURE_LENGTH * (i - 1) + 1,
                   Len(count) + SIGNATURE_LENGTH * i) = signatures[i]
     /\ Bytes(b, messageAt + 1, Len(b)) = message_bytes

\* C9: CompiledTransaction::serialize returns exactly
\* compact-length(|signatures|), the 64 bytes of each signature in stored
\* order, then the serialized message bytes; it modifies neither the
\* signatures nor the serialized message.
C9_EnvelopeLayout ==
  [][(last'.op = "serialize")
       => (/\ compiled_transaction' = compiled_transaction
           /\ serialized_message' = serialized_message
           /\ last'.ok => IsEnvelope(serialized_transaction',
                                     compiled_transaction.signatures,
                                     serialized_message))]_vars

\* An envelope of two signatures has been returned.
C9_Witness ==
  /\ last.op = "serialize"
  /\ last.ok
  /\ Len(compiled_transaction.signatures) = 2
  /\ serialized_transaction # <<>>

\* The signatures one sign call pushes for a signer list and a message.
SignaturesOf(signers, message_bytes) ==
  [i \in 1..Len(signers) |-> KeypairSign(signers[i], message_bytes)]

\* C10: sign called on a transaction that holds a signature fails and
\* leaves the signatures as they were; so the signatures are always those
\* of at most one sign call.
C10_SignTwiceFails ==
  [][/\ (last'.op = "sign" /\ compiled_transaction.signatures # <<>>)
          => (/\ ~last'.ok
              /\ compiled_transaction'.signatures = compiled_transaction.signatures)
     /\ \E signers \in SignerLists :
          \E message_bytes \in {<<>>, serialized_message'} :
            compiled_transaction'.signatures = SignaturesOf(signers, message_bytes)]_vars

\* sign has been called on a transaction that was signed already.
C10_Witness ==
  /\ last.op = "sign"
  /\ ~last.ok
  /\ last.signers # <<>>
  /\ compiled_transaction.signatures # <<>>

\* C11: a successful sign on a transaction without signatures leaves exactly
\* one signature per signer, each of SIGNATURE_LENGTH bytes, the i-th being
\* the i-th signer's signature of the serialized message handed in, whatever
\* the order of the account keys.
C11_SignAppendsInOrder ==
  [][(last'.op = "sign" /\ last'.ok /\ compiled_transaction.signatures = <<>>)
       => LET signatures == compiled_transaction'.signatures
              signers == last'.signers
          IN /\ Len(signatures) = Len(signers)
             /\ \A i \in 1..Len(signers) :
                  /\ Len(signatures[i]) = SIGNATURE_LENGTH
                  /\ signatures[i] = KeypairSign(signers[i], serialized_message)
  ]_vars

\* Two signers have signed a serialized message; their signatures differ.
C11_Witness ==
  /\ last.op = "sign"
  /\ last.ok
  /\ Len(last.signers) = 2
  /\ serialized_message # <<>>
  /\ Len(compiled_transaction.signatures) = 2
  /\ compiled_transaction.signatures[1] # compiled_transaction.signatures[2]

\* C12: sign called with an empty serialized message (the message has not
\* been serialized yet) fails and appends no signature.
C12_SignBeforeSerializeFails ==
  [][(last'.op = "sign" /\ serialized_message = <<>>)
       => (/\ ~last'.ok
           /\ compiled_transaction'.signatures = compiled_transaction.signatures)
  ]_vars

(***************************************************************************)
(* Claims about the address derivation, checked under SpecAddress.         *)
(***************************************************************************)
SeedsFit == \A i \in 1..Len(seeds) : Len(seeds[i]) <= MAX_SEED_LENGTH

\* C13: create_program_address throws, returning neither an address nor
\* "no address", whenever some seed, at any position, is longer than
\* MAX_SEED_LENGTH bytes; seeds of exactly MAX_SEED_LENGTH bytes are accepted.
C13_LongSeedRejected ==
  (last.op = "create_program_address") =>
    /\ (~SeedsFit) => (~last.ok /\ ~derived.ok /\ ~derived.has_value)
    /\ SeedsFit => (last.ok /\ derived.ok)

\* A call with a seed of exactly the limit followed by one a byte longer.
C13_Witness ==
  /\ last.op = "create_program_address"
  /\ ~last.ok
  /\ Len(seeds) = 2
  /\ Len(seeds[1]) = MAX_SEED_LENGTH
  /\ Len(seeds[2]) = MAX_SEED_LENGTH + 1

\* The seeds one after the other.
RECURSIVE Concatenation(_, _)
Concatenation(list, n) ==
  IF n = 0 THEN <<>> ELSE Concatenation(list, n - 1) \o list[n]

\* The digest the derivation is defined by.
DerivationDigest(list, program) ==
  Sha256(Concatenation(list, Len(list)) \o program \o ProgramDerivedAddress)

\* C14: for seeds that all fit, create_program_address returns "no address"
\* exactly when the digest of (the seeds in order, the program's bytes, the
\* marker "ProgramDerivedAddress") is on the curve, and otherwise exactly
\* that digest; so the outcome is fixed by the inputs and no address
\* returned is on the curve.
C14_DerivationIsDigest ==
  (last.op = "create_program_address" /\ SeedsFit) =>
    LET digest == DerivationDigest(seeds, programId)
    IN /\ derived.ok
       /\ derived.has_value <=> ~IsOnCurve(digest)
       /\ derived.has_value => (derived.value = digest /\ ~IsOnCurve(derived.value))

\* A derivation from two seeds was rejected because the digest is on the curve.
C14_Witness ==
  /\ last.op = "create_program_address"
  /\ last.ok
  /\ Len(seeds) = 2
  /\ ~derived.has_value
  /\ IsOnCurve(DerivationDigest(seeds, programId))

\* create_program_address(seeds + [n], program) returns an address.
Accepted(n) ==
  LET address == CreateProgramAddress(Append(seeds, <<n>>), programId)
  IN address.ok /\ address.has_value

\* C15: find_program_address tries the nonces 255, 254, ... in that order,
\* never 0 and at most 255 of them; it returns the largest nonce of 1..255
\* that create_program_address accepts, with the address derived for it,
\* which is off the curve; it throws only when no nonce of 1..255 is accepted.
C15_FindLargestNonce ==
  (last.op = "find_program_address") =>
    /\ Len(derived.attempts) \in 1..(UINT8_MOD - 1)
    /\ \A i \in 1..Len(derived.attempts) : derived.attempts[i] = UINT8_MOD - i
    /\ derived.ok =>
         /\ derived.nonce \in 1..(UINT8_MOD - 1)
         /\ derived.attempts[Len(derived.attempts)] = derived.nonce
         /\ Accepted(derived.nonce)
         /\ \A n \in (derived.nonce + 1)..(UINT8_MOD - 1) : ~Accepted(n)
         /\ derived.value =
              CreateProgramAddress(Append(seeds, <<derived.nonce>>), programId).value
         /\ ~IsOnCurve(derived.value)
    /\ (~derived.ok) => \A n \in 1..(UINT8_MOD - 1) : ~Accepted(n)

\* A search that did not stop at the first nonce has returned.
C15_Witness ==
  /\ last.op = "find_program_address"
  /\ last.ok
  /\ derived.nonce < UINT8_MOD - 4
  /\ Len(derived.attempts) > 4

(***************************************************************************)
(* Claims about the base-58 text of a key, checked under SpecCodec.        *)
(***************************************************************************)
\* C16: for every 32-byte value, also one with leading zero bytes or all
\* zero, the PublicKey built from the text to_base58 gives for it has
\* exactly the bytes of the value.
C16_Base58RoundTrip ==
  (last.op = "PublicKey") =>
    /\ Len(parsed) = PUBLIC_KEY_LENGTH
    /\ \A i \in 1..PUBLIC_KEY_LENGTH : parsed[i] = pubkey[i]

\* A key with leading zero bytes and others has gone through its text,
\* which starts with the digit of value 0.
C16_Witness ==
  /\ last.op = "PublicKey"
  /\ pubkey[1] = 0
  /\ pubkey[2] = 0
  /\ pubkey[PUBLIC_KEY_LENGTH] # 0
  /\ base58[1] = Alphabet[1]
  /\ Len(base58) > 2

(***************************************************************************)
(* Claims about Result<T>, checked under SpecResult.                       *)
(***************************************************************************)
\* C17: decoding a response that contains an error object populates only
\* the error slot, code and message copied, and leaves value and context
\* empty, also when the response contains a result member as well.
C17_ErrorOnly ==
  (last.op = "from_json" /\ "error" \in response.keys) =>
    /\ last.ok
    /\ result.error = Some([code |-> response.error.code,
                            message |-> response.error.message])
    /\ ~result.result.has_value
    /\ ~result.context.has_value

\* The value of the response is an explicit null, bare or wrapped.
ExplicitNull ==
  /\ "result" \in response.keys
  /\ \/ IsNull(response.result)
     \/ Contains(response.result, "value") /\ IsNull(response.result.value)

\* C18: after decoding any response the Result never has both its value and
\* its error populated, and has exactly one of them populated unless the
\* value is an explicit null, in which case both are empty.
C18_ExactlyOne ==
  (last.op = "from_json" /\ last.ok) =>
    /\ ~(result.result.has_value /\ result.error.has_value)
    /\ IF ExplicitNull
       THEN ~result.result.has_value /\ ~result.error.has_value
       ELSE result.result.has_value \/ result.error.has_value

\* C19: decoding a response without an error: a value wrapped with a
\* context populates context and value; a bare value populates the value and
\* leaves the context empty; an explicit null, bare or wrapped, leaves the
\* value and the error empty and does not throw.
C19_DecodeValue ==
  (last.op = "from_json" /\ response.keys = {"result"}) =>
    LET j == response.result
    IN /\ (Contains(j, "context") /\ Contains(j, "value") /\ ~IsNull(j.value)) =>
            /\ last.ok
            /\ result.context = Some([slot |-> j.context.slot])
            /\ result.result = Some(j.value.number)
            /\ ~result.error.has_value
       /\ (j.type = "number") =>
            /\ last.ok
            /\ result.result = Some(j.number)
            /\ ~result.context.has_value
            /\ ~result.error.has_value
       /\ ExplicitNull =>
            /\ last.ok
            /\ ~result.result.has_value
            /\ ~result.error.has_value
            /\ result.context.has_value <=> Contains(j, "context")

\* A null value wrapped with a context has been decoded.
C19_Witness ==
  /\ last.op = "from_json"
  /\ last.ok
  /\ response.keys = {"result"}
  /\ Contains(response.result, "context")
  /\ Contains(response.result, "value")
  /\ IsNull(response.result.value)
  /\ result.context.has_value
  /\ ~result.result.has_value

\* C20: unwrap returns the stored value whenever there is one; without a
\* value it throws a fault carrying the stored error's message when an
\* error is set, and another, generic fault when neither is set; it never
\* changes the Result.
C20_Unwrap ==
  [][(last'.op = "unwrap") =>
       /\ result' = result
       /\ result.result.has_value =>
            (unwrapped'.ok /\ unwrapped'.value = result.result.value)
       /\ (~result.result.has_value /\ result.error.has_value) =>
            /\ ~unwrapped'.ok
            /\ unwrapped'.fault = "runtime_error"
            /\ unwrapped'.message = result.error.value.message
       /\ (~result.result.has_value /\ ~result.error.has_value) =>
            /\ ~unwrapped'.ok
            /\ unwrapped'.fault # "runtime_error"
            /\ unwrapped'.message = ""
  ]_vars

\* unwrap has thrown the message of a decoded error.
C20_Witness ==
  /\ last.op = "unwrap"
  /\ ~last.ok
  /\ result.error.has_value
  /\ unwrapped.fault = "runtime_error"
  /\ unwrapped.message = response.error.message
  /\ unwrapped.message # ""

(***************************************************************************)
(* Order of the account keys                                               *)
(***************************************************************************)
\* The class of an entry in the order of the sort: writable signers, then
\* read-only signers, then writable non-signers, then read-only non-signers.
KeyClass(meta) ==
  IF meta.isSigner THEN (IF meta.isWritable THEN 0 ELSE 1)
  ELSE (IF meta.isWritable THEN 2 ELSE 3)

\* After position 0, the classes never decrease along the entries, and
\* within one class the addresses never decrease.
KeysOrdered(metas) ==
  \A i \in 2..(Len(metas) - 1) :
    /\ KeyClass(metas[i]) <= KeyClass(metas[i + 1])
    /\ KeyClass(metas[i]) = KeyClass(metas[i + 1])
         => ~KeyLess(metas[i + 1].pubkey, metas[i].pubkey)

\* C26: in every compiled message the keys after the fee payer are ordered
\* signers first, within them writable first, within a class by ascending
\* address; the first numRequiredSignatures keys are exactly the signers,
\* the last numReadonlySignedAccounts of those the read-only signers, and
\* the last numReadonlyUnsignedAccounts keys the read-only non-signers.
C26_KeyOrder ==
  Compiled =>
    LET message == compiled_transaction.message
        header == message.header
        metas == PromotedMetas(transaction.instructions, last.signers)
        entries == 1..Len(metas)
    IN /\ Len(message.accountKeys) = Len(metas)
       /\ \A i \in entries : message.accountKeys[i] = metas[i].pubkey
       /\ KeysOrdered(metas)
       /\ {i \in entries : metas[i].isSigner} = 1..header.numRequiredSignatures
       /\ {i \in entries : metas[i].isSigner /\ ~metas[i].isWritable} =
            (header.numRequiredSignatures - header.numReadonlySignedAccounts + 1)
              ..header.numRequiredSignatures
       /\ {i \in entries : ~metas[i].isSigner /\ ~metas[i].isWritable} =
            (Len(metas) - header.numReadonlyUnsignedAccounts + 1)..Len(metas)

\* The order alone, which holds of every compiled message.
C26_OrderOnly ==
  Compiled => KeysOrdered(PromotedMetas(transaction.instructions, last.signers))

(***************************************************************************)
(* Addresses referenced more than once                                     *)
(***************************************************************************)
\* The account references of the instructions, in the order of the walk.
AppendAccounts(references, instruction) == references \o instruction.accounts
References(instructions) == Fold(AppendAccounts, instructions, <<>>)

\* Some address is referenced by more than one account reference.
Repeated(references) ==
  Cardinality({references[i].pubkey : i \in 1..Len(references)}) < Len(references)

\* The first reference to the address.
FirstOccurrence(references, address) ==
  references[Min({i \in 1..Len(references) : references[i].pubkey = address})]

\* The instructions with every reference given the flags of the first
\* reference to its address.
FirstFlags(instructions) ==
  LET references == References(instructions) IN
  [i \in 1..Len(instructions) |->
     [instructions[i] EXCEPT
        !.accounts = [j \in 1..Len(@) |-> FirstOccurrence(references, @[j].pubkey)]]]

LexLess(a, b) ==
  \E i \in 1..Len(a) : a[i] < b[i] /\ \A j \in 1..(i - 1) : a[j] = b[j]

\* C30: operator< is the strict lexicographic order on the 32 bytes and
\* operator== is byte-wise equality; of a < b, a == b, b < a exactly one
\* holds; < is transitive; and the account sort of distinct keys returns
\* them in ascending order, whatever order they were given in.
C30_StrictTotalOrder ==
  /\ comparison.less # <<>> =>
       /\ \A i \in 1..3, j \in 1..3 :
            /\ comparison.less[i][j] = LexLess(operands[i], operands[j])
            /\ comparison.equal[i][j] = (operands[i] = operands[j])
            /\ (comparison.less[i][j] /\ ~comparison.equal[i][j] /\ ~comparison.less[j][i])
                 \/ (~comparison.less[i][j] /\ comparison.equal[i][j] /\ ~comparison.less[j][i])
                 \/ (~comparison.less[i][j] /\ ~comparison.equal[i][j] /\ comparison.less[j][i])
       /\ \A i \in 1..3, j \in 1..3, k \in 1..3 :
            (comparison.less[i][j] /\ comparison.less[j][k]) => comparison.less[i][k]
  /\ (comparison.keys # <<>> /\ Cardinality({operands[i] : i \in 1..3}) = 3) =>
       /\ {comparison.keys[i] : i \in 1..3} = {operands[i] : i \in 1..3}
       /\ LexLess(comparison.keys[1], comparison.keys[2])
       /\ LexLess(comparison.keys[2], comparison.keys[3])

\* Three distinct keys given in descending order, two of them with the same
\* first byte, compared and sorted.
C30_Witness ==
  /\ comparison.less # <<>>
  /\ comparison.keys # <<>>
  /\ operands[1][1] = operands[2][1]
  /\ comparison.less[3][2]
  /\ comparison.less[2][1]

(***************************************************************************)
(* Claims about Keypair, checked under SpecKeypair.                        *)
(***************************************************************************)
\* The Keypair holds the secret key it was given: the seed for from_seed,
\* the content of the file for from_file, the secret bytes for the
\* constructor; generate is given none.
HoldsGiven(call) ==
  \A i \in 1..Len(call.given) : call.value.value.secretKey[i] = call.given[i]

\* C23: every Keypair obtained from generate, from_seed, from_file or the
\* secret-bytes constructor without skipValidation holds the secret key it
\* was given or has generated, and its publicKey is the public key of that
\* secret key.
C23_KeypairInvariant ==
  (/\ keypair.op \in {"generate", "from_seed", "from_file", "Keypair"}
   /\ ~keypair.skipValidation
   /\ keypair.ok) =>
     /\ keypair.value.has_value
     /\ HoldsGiven(keypair)
     /\ keypair.value.value.publicKey = SkToPk(keypair.value.value.secretKey).pk

\* The same of the three static constructions, which holds.
C23_StaticPaths ==
  (/\ keypair.op \in {"generate", "from_seed", "from_file"}
   /\ keypair.ok) =>
     /\ keypair.value.has_value
     /\ HoldsGiven(keypair)
     /\ keypair.value.value.publicKey = SkToPk(keypair.value.value.secretKey).pk

\* C24: from_file returns a Keypair only when the file can be opened and is
\* exactly crypto_sign_SECRETKEYBYTES bytes long; for an unopenable file
\* and for a file of any other size it throws and returns no Keypair.
C24_FromFileExactSize ==
  keypair.op = "from_file" =>
    /\ keypair.ok => (file.openable /\ file.size = crypto_sign_SECRETKEYBYTES)
    /\ ~(file.openable /\ file.size = crypto_sign_SECRETKEYBYTES) =>
         (~keypair.ok /\ keypair.error # "" /\ ~keypair.value.has_value)
    /\ keypair.ok = keypair.value.has_value

\* from_file has thrown for a file one byte longer than a secret key, with
\* the library initialized.
C24_Witness ==
  /\ keypair.op = "from_file"
  /\ sodium.initialized
  /\ file.openable
  /\ file.size = crypto_sign_SECRETKEYBYTES + 1
  /\ ~keypair.ok
  /\ keypair.error = "invalid secret key file"

(***************************************************************************)
(* Claims about base64, checked under SpecBase64.                          *)
(***************************************************************************)
HelloText == <<"a", "G", "V", "s", "b", "G", "8", "=">>

\* C25: encoding n bytes yields 4 * ceil(n / 3) characters, of which only
\* the last (3 - n mod 3) mod 3 are '='; "hello" encodes to "aGVsbG8="; and
\* decoding the text returns the n bytes encoded.
C25_Base64RoundTrip ==
  last.op \in {"encode", "decode"} =>
    LET n == Len(data)
        pads == (3 - (n % 3)) % 3
    IN /\ Len(text) = 4 * ((n + 2) \div 3)
       /\ \A k \in 1..Len(text) : (text[k] = Base64Pad) = (k > Len(text) - pads)
       /\ data = Hello => text = HelloText
       /\ last.op = "decode" => decoded = data

\* "hello" encoded to "aGVsbG8=" and decoded to "hello".
C25_Witness ==
  /\ last.op = "decode"
  /\ data = Hello
  /\ text = HelloText
  /\ decoded = Hello

(***************************************************************************)
(* Claims about sending, checked under SpecSend.                           *)
(***************************************************************************)
\* The steps of sign_and_send_transaction, in the order claimed.
SendSteps == <<"getLatestBlockhash", "compile", "Message::serialize", "sign",
               "serialize", "sendTransaction">>

\* The requests for sendTransaction among the steps taken.
Submissions == {i \in 1..Len(calls) : calls[i].step = "sendTransaction"}

\* The node answers the method with an error object and no result.
AnswersError(method) == node[method].keys = {"error"}

\* C21: sign_and_send_transaction takes its steps in the order blockhash,
\* compile, Message::serialize, sign, serialize, sendTransaction, each only
\* after the steps before it succeeded; the blockhash fetched is stored in
\* the transaction and compiled into the message; a call that returns has
\* submitted exactly one sendTransaction request, which carries the base64
\* text of the envelope; and when the blockhash query, compile or
\* Message::serialize raises, no sendTransaction request is made.
C21_SendOrder ==
  last.op = "sign_and_send_transaction" =>
    /\ Len(calls) <= Len(SendSteps)
    /\ \A i \in 1..Len(calls) :
         /\ calls[i].step = SendSteps[i]
         /\ i < Len(calls) => calls[i].ok
    /\ Len(calls) >= 1
    /\ last.ok = (Len(calls) = Len(SendSteps) /\ calls[Len(calls)].ok)
    /\ Len(calls) >= 2 =>
         transaction.recentBlockhash =
           BlockhashKey(node.getLatestBlockhash.result.value.number)
    /\ Len(calls) >= 3 =>
         compiled_transaction.message.recentBlockhash = transaction.recentBlockhash
    /\ last.ok =>
         /\ Cardinality(Submissions) = 1
         /\ IsEnvelope(serialized_transaction, compiled_transaction.signatures,
                       serialized_message)
         /\ calls[Len(calls)].params = Base64Encode(serialized_transaction)
    /\ (\/ node.getLatestBlockhash.result.type # "object"
        \/ transaction.instructions = <<>>
        \/ last.signers = <<>>
        \/ (Len(calls) >= 3 /\ compiled_transaction.message.header.numRequiredSignatures = 0))
         => Submissions = {}

\* A transaction was submitted: every step was taken, and the request
\* carries the envelope of a message signed by two signers.
C21_Witness ==
  /\ last.op = "sign_and_send_transaction"
  /\ last.ok
  /\ Len(calls) = Len(SendSteps)
  /\ Len(compiled_transaction.signatures) = 2
  /\ transaction.recentBlockhash # Addr(9)

\* Message::serialize raised for a message whose header requires no
\* signature, and nothing was submitted.
C21_WitnessRaised ==
  /\ last.op = "sign_and_send_transaction"
  /\ ~last.ok
  /\ Len(calls) = 3
  /\ Submissions = {}

\* C22: when the node answers the blockhash query, or a submission that
\* was made, with an error object, sign_and_send_transaction and
\* create_associated_token_account do not raise and return a Result
\* carrying the code and the message of the node.
C22_RemoteErrorAsData ==
  (/\ last.op \in {"sign_and_send_transaction", "create_associated_token_account"}
   /\ calls # <<>>
   /\ \/ AnswersError("getLatestBlockhash")
      \/ (Submissions # {} /\ AnswersError("sendTransaction"))) =>
    /\ last.ok
    /\ result.error =
         Some(GetResultError(IF AnswersError("getLatestBlockhash")
                             THEN node.getLatestBlockhash.error
                             ELSE node.sendTransaction.error))

\* What does hold: an error answer to the submission is returned as data by
\* sign_and_send_transaction.
C22_SubmissionErrorAsData ==
  (/\ last.op = "sign_and_send_transaction"
   /\ Submissions # {}
   /\ AnswersError("sendTransaction")) =>
    /\ last.ok
    /\ result.error = Some(GetResultError(node.sendTransaction.error))

(***************************************************************************)
(* Claims about the initialization of libsodium, checked under SpecSodium. *)
(***************************************************************************)
\* The operations that use a curve or signing primitive, and the
\* constructions that initialize the library.
PrimitiveUses == {"is_on_curve", "create_program_address", "find_program_address", "sign"}
Constructions == {"Keypair", "from_seed", "Connection"}

\* C29: when an operation that uses a curve or signing primitive runs, the
\* library has been initialized, and the key derivation of from_seed runs
\* only after the initialization inside it succeeded; a construction in a
\* process whose library is initialized does not throw.
C29_InitializedBeforeUse ==
  [][/\ last'.op \in PrimitiveUses => sodium.initialized
     /\ (last'.op = "from_seed" /\ last'.ok) => sodium'.initialized
     /\ (last'.op \in Constructions /\ sodium.initialized) => last'.ok
    ]_vars

\* What does hold: sign and the key derivation run initialized, and a
\* redundant initialization does not throw.
C29_RedundantInit ==
  [][/\ last'.op = "sign" => sodium.initialized
     /\ (last'.op = "from_seed" /\ last'.ok) => sodium'.initialized
     /\ (last'.op \in Constructions /\ sodium.initialized) =>
          (last'.ok /\ sodium' = sodium)
    ]_vars

====
